---- MODULE Spec2Model ----
(***************************************************************************)
(* wt: git worktree lifecycle orchestrator.                                *)
(*                                                                         *)
(* The model covers the lifecycle runner (plugins/runner.ts), the create,  *)
(* merge and remove workflows (commands/create.ts, merge.ts, remove.ts),   *)
(* the git client they call (core/git.ts) and the generated shell wrapper  *)
(* (commands/init.ts) that consumes the command's stdout and exit code.    *)
(*                                                                         *)
(* One behaviour is one invocation of `wt create`, `wt merge` or           *)
(* `wt remove` from an interactive shell, followed by the wrapper's        *)
(* decision to change directory.  git itself is the environment: where the result of a git    *)
(* command is determined by the repository state it is determined here,    *)
(* otherwise it is a nondeterministic choice.                              *)
(***************************************************************************)
EXTENDS Integers, Sequences, FiniteSets, TLC

\* ------------------------------------------------------------------ bounds
\* number of plugins in config.plugins
NPlugins == 2
\* longest hook array in the configuration
MaxList == 3

\* ------------------------------------------------------------- the world
Null == "null"
Undefined == "undefined"

\* directories the command can be invoked from
Repo == "/repo"
Wt == "/wt"
WtSub == "/wt/sub"
Out == "/out"
\* where `wt create` puts the worktree of a branch that has none yet
New == "/new"
AllDirs == {Repo, Wt, WtSub, Out, New}

BranchNames == {"main", "feat"}

\* `git rev-parse --show-toplevel` run in directory d
TopLevel(d) == IF d = WtSub THEN Wt ELSE d

\* the directories deleted together with a working tree root
Under(root) == {d \in AllDirs : TopLevel(d) = root}

HookNames ==
  {"beforeCreate", "afterCreate", "beforeMerge", "afterMerge", "beforeRemove", "afterRemove"}

VARIABLES
  cmd,        \* "create", "merge" or "remove": the subcommand of this invocation
  opts,       \* parsed options [keep, force, name]
  settings,   \* config.settings as loadConfig returns them
  cwd,        \* process.cwd() of the wt process = directory of the calling shell
  originHead, \* branch refs/remotes/origin/HEAD points to, or "none"
  worktrees,  \* git's worktree list: root path -> checked-out branch or Null (detached)
  branches,   \* refs/heads/*
  dirs,       \* directories that exist on disk
  pc,         \* position of the command
  loc,        \* the command's local variables
  runner,     \* the state of the current (or last) runHooks call
  trace,      \* what the command did so far: git calls, lifecycle events, prompts
  stdout,     \* lines written with console.log (the success channel)
  error,      \* how the command ended: [name, targetBranch, targetWorktree, exitCode]
  shellCwd,   \* working directory of the calling shell
  call        \* a library function applied on its own: [fn, in, out]

envVars == <<cmd, opts, settings, cwd, originHead, call>>
gitVars == <<worktrees, branches, dirs>>
vars == <<cmd, opts, settings, cwd, originHead, worktrees, branches, dirs, pc, loc, runner,
          trace, stdout, error, shellCwd, call>>

\* ---------------------------------------------------------------- errors
NoError == [name |-> "running", targetBranch |-> "", targetWorktree |-> "", exitCode |-> 0]
Ok == [name |-> "ok", targetBranch |-> "", targetWorktree |-> "", exitCode |-> 0]

\* class WtError and its subclasses: every one of them carries exit code 1
WtError(name) == [name |-> name, targetBranch |-> "", targetWorktree |-> "", exitCode |-> 1]

\* a plausible slip: the two constructor arguments are passed in the wrong order
MergeConflictErrorSwapped(targetBranch, targetWorktree) ==
  [name |-> "MergeConflictError", targetBranch |-> targetWorktree,
   targetWorktree |-> targetBranch, exitCode |-> 1]

\* class MergeConflictError(targetBranch, targetWorktree), exit code 1
MergeConflictError(targetBranch, targetWorktree) ==
  [name |-> "MergeConflictError", targetBranch |-> targetBranch,
   targetWorktree |-> targetWorktree, exitCode |-> 1]

\* handleError: process.exit(error.exitCode) for a WtError, process.exit(1) otherwise;
\* a command that returns ends the process with code 0
ExitCode(e) == IF e.name = "ok" THEN 0 ELSE IF e.name = "Error" THEN 1 ELSE e.exitCode

\* ----------------------------------------------------------------- trace
VcsCall(op, arg, exit) == [t |-> "vcs", op |-> op, arg |-> arg, exit |-> exit]
Event(hookName, ctx) == [t |-> "event", op |-> hookName, arg |-> ctx.worktreePath, exit |-> 0]
Prompt(op, arg) == [t |-> "prompt", op |-> op, arg |-> arg, exit |-> 0]
\* what the body of a hook function did to the disk or the repository
Effect(op, arg) == [t |-> "effect", op |-> op, arg |-> arg, exit |-> 0]
\* a yes/no question put to the user and the answer typed
Answered(op, arg, answer) ==
  [t |-> "prompt", op |-> op, arg |-> arg, exit |-> IF answer = "y" THEN 0 ELSE 1]
Output(line) == [t |-> "out", op |-> "console.log", arg |-> line, exit |-> 0]
Diag(op, text) == [t |-> "diag", op |-> op, arg |-> text, exit |-> 0]
Copy(srcDir) == [t |-> "copy", op |-> "copyGitIgnoredFiles", arg |-> srcDir, exit |-> 0]

\* ------------------------------------------------------------ git client
\* isInsideGitRepo: `git rev-parse --is-inside-work-tree`
IsInsideGitRepo(d) == TopLevel(d) \in DOMAIN worktrees

\* getCurrentBranch: `git symbolic-ref --quiet --short HEAD`, Null when HEAD is detached
CurrentBranchOf(d) == worktrees[TopLevel(d)]

\* getDefaultBranch: origin/HEAD, then main, then master, then "main"
GetDefaultBranch ==
  IF originHead # "none" THEN originHead
  ELSE IF "main" \in branches THEN "main"
  ELSE IF "master" \in branches THEN "master"
  ELSE "main"

\* listWorktrees: the records {path, branch, isDetached} of `git worktree list --porcelain`
ListWorktrees ==
  {[path |-> p, branch |-> worktrees[p], isDetached |-> (worktrees[p] = Null)] :
     p \in DOMAIN worktrees}

NoWorktree == [path |-> Null, branch |-> Null, isDetached |-> FALSE]

\* findWorktreeByBranch: a branch is checked out in at most one working tree
FindWorktreeByBranch(b) ==
  IF \E w \in ListWorktrees : w.branch = b
  THEN CHOOSE w \in ListWorktrees : w.branch = b
  ELSE NoWorktree

\* branchExists: `git show-ref --verify --quiet refs/heads/<name>` exits 0
BranchExists(name) == name \in branches

\* a directory that a hook made and left empty; git accepts it as the place
\* of a new worktree
EmptyDir(path) ==
  \E i \in 1..Len(trace) :
    trace[i].t = "effect" /\ trace[i].op = "mkdir" /\ trace[i].arg = path

\* createWorktree: the exit codes `git worktree add [-b <name>] <path> [<name>]`
\* can produce.  git refuses an existing path, `-b` with a branch that exists,
\* and a branch that is checked out in another working tree; it may fail for
\* other reasons (an invalid name, a file system error).
CreateWorktreeExits(path, name, createBranch) ==
  IF path \in dirs /\ ~EmptyDir(path) THEN {128}
  ELSE IF createBranch /\ name \in branches THEN {128}
  ELSE IF ~createBranch /\ (\E p \in DOMAIN worktrees : worktrees[p] = name) THEN {128}
  ELSE {0, 128}

\* removeWorktree: the exit codes `git worktree remove "<path>"` can produce.
\* git refuses a path that is not the root of a linked working tree (a
\* subdirectory, or the main working tree); it may refuse a dirty or locked one.
RemoveWorktreeExits(path) ==
  IF path \notin DOMAIN worktrees \/ path = Repo THEN {128} ELSE {0, 128}

\* deleteBranch: the exit codes `git branch -d "<name>"` can produce when run in
\* the process's working directory.  git dies when that directory no longer
\* exists, refuses to delete a branch checked out in a working tree, and may
\* refuse a branch that is not fully merged.
DeleteBranchExits(name) ==
  IF cwd \notin dirs THEN {128}
  ELSE IF name \notin branches \/ (\E p \in DOMAIN worktrees : worktrees[p] = name) THEN {1}
  ELSE {0, 1}

\* --------------------------------------------------------- hook values
\* HookValue = HookFunction | string | (HookFunction | string)[]
\* (a command is a non-empty string: runHooks tests the value for truthiness)
ItemKinds == {"fn", "cmd"}

ListsUpTo(n) == UNION {[1..k -> ItemKinds] : k \in 0..n}

HookValues ==
  {[shape |-> "fn", items |-> <<"fn">>], [shape |-> "cmd", items |-> <<"cmd">>]}
  \cup {[shape |-> "list", items |-> l] : l \in ListsUpTo(MaxList)}

NoHook == [shape |-> Undefined, items |-> <<>>]

\* what running one item can do: a function returns, throws or returns a
\* promise that rejects; a command exits with a code, and cannot be spawned in a
\* working directory that does not exist (exec then reports `e.status ?? 1`)
ItemResults(kind, ctx) ==
  IF kind = "fn" THEN {"ok", "throw", "reject"}
  ELSE IF ctx.worktreePath \in dirs THEN {"exit0", "exit1"}
  ELSE {"exit1"}

\* a plausible slip: only a failing command stops the item, a failing function is swallowed
ItemRaisesCommandOnly(kind, res) == kind = "cmd" /\ res # "exit0"

\* executeHookItem: raises when a command's exit code is not 0 and when the
\* awaited function throws or rejects
ItemRaises(kind, res) == IF kind = "cmd" THEN res # "exit0" ELSE res # "ok"

\* a plausible slip: the item is not awaited, so a rejected promise escapes the try
CatchesSyncOnly(res) == res # "reject"

\* executeHookValue: the try/catch around the awaited items catches every failure
Catches(res) == TRUE

\* a plausible slip: only functions are treated as hooks
HookDefinedFunctionsOnly(hook) == hook.shape = "fn"

\* runHooks: `if (hook)`, `if (inlineHook)`
HookDefined(hook) == hook.shape # Undefined

\* what a hook function can do to the context object it is handed: leave it
\* alone or assign to one of its properties (here worktreePath, set to a
\* directory of the function's choosing); a command cannot touch it
ContextWrites(kind) == IF kind = "fn" THEN {"none", "worktreePath"} ELSE {"none"}

WriteContext(ctx, write) ==
  IF write = "worktreePath" THEN [ctx EXCEPT !.worktreePath = Out] ELSE ctx

\* a plausible slip: the label of a plugin hook does not carry the plugin's name
HookLabelWithoutName(slot, hookName) ==
  [who |-> IF slot <= NPlugins THEN "Plugin" ELSE "Inline", name |-> 0, hook |-> hookName]

\* runHooks: the label handed to executeHookValue, `Plugin "<plugin.name>" <hookName> hook`
\* or `Inline <hookName> hook`; the plugin in slot i is named i
HookLabel(slot, hookName) ==
  IF slot <= NPlugins THEN [who |-> "Plugin", name |-> slot, hook |-> hookName]
  ELSE [who |-> "Inline", name |-> 0, hook |-> hookName]

\* supplied: the context the workflow passed to runHooks; ctx: fullContext, the
\* one object runHooks builds from it and hands to every hook of the call
IdleRunner ==
  [state |-> "idle", hookName |-> "none",
   supplied |-> [branchName |-> "", worktreePath |-> "", targetWorktree |-> Undefined],
   ctx |-> [branchName |-> "", worktreePath |-> "", targetWorktree |-> Undefined],
   slot |-> 0, value |-> NoHook, pos |-> 0,
   seen |-> <<>>, ran |-> <<>>, warnings |-> <<>>, labels |-> <<>>, items |-> <<>>,
   inFlight |-> 0]

\* runHooks entered: the loop over config.plugins is about to start
StartHooks(hookName, ctx) ==
  [IdleRunner EXCEPT !.state = "loop", !.hookName = hookName, !.supplied = ctx,
                     !.ctx = ctx, !.slot = 1]

InlineSlot == NPlugins + 1


\* ------------------------------------------------------------ path names
\* A string is a sequence of atoms: the separator, "..", a template token, a
\* substitution pattern or a run of other characters.
Sep == "/"
DotDot == ".."

RECURSIVE Flatten(_)
Flatten(ss) == IF ss = <<>> THEN <<>> ELSE Head(ss) \o Flatten(Tail(ss))

\* String.prototype.replace with a string as replacement: in the replacement
\* `$$` stands for a dollar sign and `$&` for the matched text
GetSubstitution(matched, replacement) ==
  Flatten([i \in 1..Len(replacement) |->
             IF replacement[i] = "$&" THEN <<matched>>
             ELSE IF replacement[i] = "$$" THEN <<"$">>
             ELSE <<replacement[i]>>])

\* str.replace(/token/g, value)
ReplaceAll(str, token, value) ==
  Flatten([i \in 1..Len(str) |->
             IF str[i] = token THEN GetSubstitution(token, value) ELSE <<str[i]>>])

\* resolveWorktreePath(pattern, vars)
ResolveWorktreePath(pattern, v) ==
  ReplaceAll(ReplaceAll(ReplaceAll(pattern, "{repo}", v.repo), "{branch}", v.branch),
             "{parent}", v.parent)

\* the segments of a path string, empty ones included
RECURSIVE Split(_)
Split(str) ==
  IF \A i \in 1..Len(str) : str[i] # Sep THEN <<str>>
  ELSE LET i == CHOOSE k \in 1..Len(str) : str[k] = Sep /\ \A j \in 1..(k - 1) : str[j] # Sep
       IN  <<SubSeq(str, 1, i - 1)>> \o Split(SubSeq(str, i + 1, Len(str)))

\* node:path normalizeString on an absolute path: empty segments are dropped
\* and ".." removes the segment before it, if there is one
RECURSIVE Normalize(_, _)
Normalize(done, segs) ==
  IF segs = <<>> THEN done
  ELSE IF Head(segs) = <<>> THEN Normalize(done, Tail(segs))
  ELSE IF Head(segs) = <<DotDot>>
  THEN Normalize(IF done = <<>> THEN done ELSE SubSeq(done, 1, Len(done) - 1), Tail(segs))
  ELSE Normalize(Append(done, Head(segs)), Tail(segs))

\* the string of an absolute path given by its segments
PathString(segs) ==
  IF segs = <<>> THEN <<Sep>> ELSE Flatten([i \in 1..Len(segs) |-> <<Sep>> \o segs[i]])

\* path.resolve(from, to) for an absolute from: the segments of the result
PathResolve(from, to) ==
  Normalize(<<>>, Split(IF to # <<>> /\ to[1] = Sep THEN to ELSE from \o <<Sep>> \o to))

\* path.dirname and path.basename of an absolute path that is not the root
Dirname(segs) == SubSeq(segs, 1, Len(segs) - 1)
Basename(segs) == segs[Len(segs)]

\* createCommand, lines 40-56: the worktree path for pattern, branch name,
\* repository root and working directory
WorktreePath(in) ==
  LET repoName == Basename(in.repoRoot)
      parentDir == PathString(Dirname(in.repoRoot))
      resolvedPath == ResolveWorktreePath(in.pattern,
                        [repo |-> repoName, branch |-> in.name, parent |-> parentDir])
  IN  PathResolve(PathString(in.cwd), resolvedPath)

\* no library function is applied on its own while a command runs
NoCall == [fn |-> "none", in |-> <<>>, out |-> <<>>, done |-> FALSE]

\* ------------------------------------------------------------------ Init
Names == {Undefined} \cup BranchNames \cup {"zzz"}

NoLocals ==
  [repoRoot |-> Null, currentBranch |-> Null, defaultBranch |-> Null,
   mainPath |-> Null, target |-> NoWorktree, worktreePath |-> Null,
   needsNewBranch |-> FALSE]

\* createCommand: path.resolve(cwd, resolveWorktreePath(config.settings.worktreePath, ...)),
\* the place the configured pattern gives the worktree of branch name: the
\* worktree of feat goes where the linked worktree of this repository is
WorktreePathFor(name) == IF name = "feat" THEN Wt ELSE New

\* the branch names `wt create` is invoked with
CreateNames == {"feat", "zzz"}

Init ==
  /\ cmd \in {"create", "merge", "remove"}
  /\ opts \in [keep : BOOLEAN, force : BOOLEAN, name : Names, tty : BOOLEAN]
  /\ cmd = "create" => ~opts.keep /\ ~opts.force /\ opts.name \in CreateNames /\ opts.tty
  /\ cmd = "merge" => ~opts.force /\ opts.name = Undefined /\ opts.tty
  /\ cmd = "remove" => ~opts.keep
  \* the terminal is only looked at when a prompt is due
  /\ (cmd = "remove" /\ opts.force /\ opts.name # Undefined) => opts.tty
  /\ settings \in [copyGitIgnoredFiles : BOOLEAN]
  /\ cmd # "create" => settings.copyGitIgnoredFiles
  /\ originHead \in {"none", "feat"}
  \* only merge is run where origin/HEAD names another branch than main
  /\ cmd # "merge" => originHead = "none"
  /\ worktrees \in {Repo :> "main"} \cup {(Repo :> "main") @@ (Wt :> b) : b \in {"feat", Null}}
  \* create never asks which branch a worktree is on
  /\ cmd = "create" => \A p \in DOMAIN worktrees : worktrees[p] # Null
  /\ branches = BranchNames
  /\ \E other \in SUBSET {New} :
       /\ (cmd # "create" \/ WorktreePathFor(opts.name) # New) => other = {}
       /\ dirs = {Out} \cup other \cup UNION {Under(p) : p \in DOMAIN worktrees}
  \* remove uses its working directory only to find the repository
  /\ cwd \in dirs \ ({New} \cup IF cmd = "remove" THEN {WtSub} ELSE {})
  /\ shellCwd = cwd
  /\ pc = "start"
  /\ loc = NoLocals
  /\ runner = IdleRunner
  /\ trace = <<>>
  /\ stdout = <<>>
  /\ error = NoError
  /\ call = NoCall

\* ---------------------------------------------------------------- runner
\* the hook found for the current slot is looked at: skipped when undefined,
\* otherwise executeHookValue is entered (an empty array runs nothing)
EnterSlot(hook) ==
  LET r == [runner EXCEPT !.seen = Append(@, hook.shape # Undefined)]
  IN  IF ~HookDefined(hook) THEN [r EXCEPT !.slot = @ + 1]
      ELSE IF hook.items = <<>>
      THEN [r EXCEPT !.ran = Append(@, runner.slot), !.value = hook, !.items = <<>>,
                     !.pos = 0, !.slot = @ + 1]
      ELSE [r EXCEPT !.ran = Append(@, runner.slot), !.value = hook, !.items = <<>>,
                     !.pos = 1, !.state = "value"]

\* runHooks, one turn of `for (const plugin of config.plugins)`
RunPluginHook ==
  /\ runner.state = "loop"
  /\ runner.slot <= NPlugins
  /\ \E hook \in HookValues \cup {NoHook} : runner' = EnterSlot(hook)
  /\ UNCHANGED <<envVars, gitVars, pc, loc, trace, stdout, error, shellCwd>>

\* runHooks, `const inlineHook = config.hooks[hookName]`
RunInlineHook ==
  /\ runner.state = "loop"
  /\ runner.slot = InlineSlot
  /\ \E hook \in HookValues \cup {NoHook} : runner' = EnterSlot(hook)
  /\ UNCHANGED <<envVars, gitVars, pc, loc, trace, stdout, error, shellCwd>>

\* executeHookValue running the next item of the current hook value through
\* executeHookItem; a raised failure leaves the array and is logged as one warning
ExecuteHookItem ==
  /\ runner.state = "value"
  /\ LET kind == runner.value.items[runner.pos]
     IN \E res \in ItemResults(kind, runner.ctx), write \in ContextWrites(kind) :
        LET r == [runner EXCEPT
                    !.items = Append(@, [pos |-> runner.pos, kind |-> kind, res |-> res]),
                    !.ctx = WriteContext(@, write),
                    !.inFlight = 0]
        IN  IF ItemRaises(kind, res)
            THEN IF Catches(res)
                 THEN /\ runner' = [r EXCEPT !.warnings = Append(@, runner.slot),
                                             !.labels = Append(@, HookLabel(runner.slot,
                                                                            runner.hookName)),
                                             !.state = "loop", !.slot = @ + 1]
                      /\ UNCHANGED <<pc, error>>
                 ELSE /\ runner' = [r EXCEPT !.state = "raised"]
                      /\ error' = WtError("HookError")
                      /\ pc' = "done"
            ELSE /\ runner' = IF runner.pos < Len(runner.value.items)
                              THEN [r EXCEPT !.pos = @ + 1]
                              ELSE [r EXCEPT !.state = "loop", !.slot = @ + 1]
                 /\ UNCHANGED <<pc, error>>
  /\ UNCHANGED <<envVars, gitVars, loc, trace, stdout, shellCwd>>

\* a plausible slip: the promise of executeHookItem is not awaited
AwaitsItemNever == FALSE

\* executeHookValue: `await executeHookItem(item, ctx)`
AwaitsItem == TRUE

\* executeHookItem is called: the body of the item (the function, or the
\* child process of the command) starts and its promise is pending
ItemStart ==
  /\ runner.state = "value"
  /\ AwaitsItem => runner.inFlight = 0
  /\ runner.inFlight < 2
  /\ runner' = [runner EXCEPT !.inFlight = @ + 1]
  /\ UNCHANGED <<envVars, gitVars, pc, loc, trace, stdout, error, shellCwd>>

\* the pending promise settles and executeHookValue goes on
ItemSettle ==
  /\ runner.inFlight >= 1
  /\ ExecuteHookItem

\* runHooks returns to the workflow that awaited it
RunHooksReturn ==
  /\ runner.state = "loop"
  /\ runner.slot = InlineSlot + 1
  /\ runner' = IdleRunner
  /\ UNCHANGED <<envVars, gitVars, pc, loc, trace, stdout, error, shellCwd>>

Idle == runner.state = "idle"


\* ------------------------------------------------------- merge workflow
\* a plausible slip: the guard is dropped
OnDefaultBranchNever(currentBranch, defaultBranch) == FALSE

\* mergeCommand: `if (currentBranch === defaultBranch)`
OnDefaultBranch(currentBranch, defaultBranch) == currentBranch = defaultBranch

\* a plausible slip: the exit code of git merge is not looked at
MergeFailedNever(exit) == FALSE

\* mergeCommand: `if (mergeResult.exitCode !== 0)`
MergeFailed(exit) == exit # 0

\* a plausible slip: the keep flag is ignored
KeepRequestedNever == FALSE

\* mergeCommand: `if (keep)`, keep defaults to false
KeepRequested == opts.keep

\* a plausible slip: a failed removal aborts the merge command as it aborts remove
MergeRemoveFatalOnFailure(exit) == exit # 0

\* mergeCommand: a failed worktree removal is only warned about
MergeRemoveFatal(exit) == FALSE

\* the hook context mergeCommand builds
MergeContext(l) ==
  [branchName |-> l.currentBranch, worktreePath |-> cwd, targetWorktree |-> l.mainPath]

\* mergeCommand up to `await runHook('beforeMerge', hookContext)`: what it
\* throws, what it called, and the locals it has then
MergePrelude(configOk) ==
  LET inside == IsInsideGitRepo(cwd)
      t1 == <<VcsCall("isInsideGitRepo", cwd, IF inside THEN 0 ELSE 128)>>
      cur == CurrentBranchOf(cwd)
      def == GetDefaultBranch
      t3 == t1 \o <<VcsCall("getRepoRoot", cwd, 0),
                    VcsCall("getCurrentBranch", cwd, IF cur = Null THEN 1 ELSE 0)>>
      t4 == t3 \o <<VcsCall("getDefaultBranch", cwd, 0)>>
      main == FindWorktreeByBranch(def)
      t5 == t4 \o <<VcsCall("getDefaultBranch", cwd, 0), VcsCall("listWorktrees", cwd, 0)>>
      l == [NoLocals EXCEPT !.repoRoot = TopLevel(cwd), !.currentBranch = cur,
                            !.defaultBranch = def, !.mainPath = main.path]
  IN  IF ~inside THEN [error |-> WtError("NotInRepoError"), trace |-> t1, loc |-> NoLocals]
      ELSE IF cur = Null THEN [error |-> WtError("DetachedHeadError"), trace |-> t3, loc |-> NoLocals]
      ELSE IF OnDefaultBranch(cur, def)
      THEN [error |-> WtError("AlreadyOnDefault"), trace |-> t4, loc |-> NoLocals]
      ELSE IF main = NoWorktree
      THEN [error |-> WtError("WorktreeNotFoundError"), trace |-> t5, loc |-> NoLocals]
      ELSE IF ~configOk THEN [error |-> WtError("Error"), trace |-> t5, loc |-> NoLocals]
      ELSE [error |-> NoError, trace |-> t5, loc |-> l]

\* mergeCommand, from its entry to the call of the beforeMerge hooks
MergeStart ==
  /\ pc = "start" /\ cmd = "merge"
  /\ \E configOk \in BOOLEAN :
       LET p == MergePrelude(configOk)
       IN  /\ loc' = p.loc
           /\ IF p.error # NoError
              THEN /\ error' = p.error
                   /\ trace' = p.trace
                   /\ pc' = "done"
                   /\ UNCHANGED runner
              ELSE /\ trace' = p.trace \o <<Event("beforeMerge", MergeContext(p.loc))>>
                   /\ runner' = StartHooks("beforeMerge", MergeContext(p.loc))
                   /\ pc' = "merge"
                   /\ UNCHANGED error
  /\ UNCHANGED <<envVars, gitVars, stdout, shellCwd>>

\* mergeCommand: git merge in the primary worktree, then the failure path, the
\* keep path or the call of the beforeRemove hooks
MergeAttempt ==
  /\ pc = "merge" /\ Idle
  /\ \E exit \in {0, 1} :
       LET t == Append(trace, VcsCall("mergeBranch", loc.currentBranch, exit))
       IN  IF MergeFailed(exit)
           THEN /\ trace' = t \o <<Diag("console.error", "git merge output"), Output(cwd)>>
                /\ stdout' = Append(stdout, cwd)
                /\ error' = MergeConflictError(loc.defaultBranch, loc.mainPath)
                /\ pc' = "done"
                /\ UNCHANGED runner
           ELSE IF KeepRequested
           THEN /\ trace' = Append(t, Event("afterMerge", MergeContext(loc)))
                /\ runner' = StartHooks("afterMerge", MergeContext(loc))
                /\ pc' = "output"
                /\ UNCHANGED <<stdout, error>>
           ELSE /\ trace' = Append(t, Event("beforeRemove", MergeContext(loc)))
                /\ runner' = StartHooks("beforeRemove", MergeContext(loc))
                /\ pc' = "removeWorktree"
                /\ UNCHANGED <<stdout, error>>
  /\ UNCHANGED <<envVars, gitVars, loc, shellCwd>>

\* the effect of a `git worktree remove` that exited with code exit
RemoveWorktreeEffect(path, exit) ==
  IF exit = 0
  THEN /\ worktrees' = [p \in DOMAIN worktrees \ {path} |-> worktrees[p]]
       /\ dirs' = dirs \ Under(path)
  ELSE UNCHANGED <<worktrees, dirs>>

\* mergeCommand: removeWorktree(originalCwd)
MergeRemoveWorktree ==
  /\ pc = "removeWorktree" /\ cmd = "merge" /\ Idle
  /\ \E exit \in RemoveWorktreeExits(cwd) :
       /\ trace' = Append(trace, VcsCall("removeWorktree", cwd, exit))
       /\ RemoveWorktreeEffect(cwd, exit)
       /\ IF MergeRemoveFatal(exit)
          THEN error' = WtError("WtError") /\ pc' = "done"
          ELSE pc' = "deleteBranch" /\ UNCHANGED error
  /\ UNCHANGED <<envVars, branches, loc, runner, stdout, shellCwd>>

\* mergeCommand: deleteBranch(currentBranch), warned about when it fails, then
\* the call of the afterRemove hooks
MergeDeleteBranch ==
  /\ pc = "deleteBranch" /\ cmd = "merge" /\ Idle
  /\ \E exit \in DeleteBranchExits(loc.currentBranch) :
       /\ trace' = trace \o <<VcsCall("deleteBranch", loc.currentBranch, exit),
                              Event("afterRemove", MergeContext(loc))>>
       /\ branches' = IF exit = 0 THEN branches \ {loc.currentBranch} ELSE branches
  /\ runner' = StartHooks("afterRemove", MergeContext(loc))
  /\ pc' = "afterMerge"
  /\ UNCHANGED <<envVars, worktrees, dirs, loc, stdout, error, shellCwd>>

\* mergeCommand: `await runHook('afterMerge', hookContext)` after the clean-up
MergeAfterMerge ==
  /\ pc = "afterMerge" /\ Idle
  /\ trace' = Append(trace, Event("afterMerge", MergeContext(loc)))
  /\ runner' = StartHooks("afterMerge", MergeContext(loc))
  /\ pc' = "output"
  /\ UNCHANGED <<envVars, gitVars, loc, stdout, error, shellCwd>>

\* mergeCommand: `console.log(mainWorktree.path)` and return
MergeOutput ==
  /\ pc = "output" /\ Idle
  /\ trace' = Append(trace, Output(loc.mainPath))
  /\ stdout' = Append(stdout, loc.mainPath)
  /\ error' = Ok
  /\ pc' = "done"
  /\ UNCHANGED <<envVars, gitVars, loc, runner, shellCwd>>


\* ------------------------------------------------------ remove workflow
\* a plausible slip: the force flag bypasses the guard together with the confirmation
IsDefaultBranchWorktreeUnlessForced(worktree, defaultBranch) ==
  worktree.branch = defaultBranch /\ ~opts.force

\* removeCommand: `if (worktree.branch === defaultBranch)`
IsDefaultBranchWorktree(worktree, defaultBranch) == worktree.branch = defaultBranch

\* a plausible slip: a failed removal is only warned about, as in mergeCommand
RemoveFailedIgnored(exit) == FALSE

\* removeCommand: `if (removeResult.exitCode !== 0) throw new WtError(...)`
RemoveFailed(exit) == exit # 0

\* a plausible slip: a failed branch deletion aborts the command
DeleteFailedFatalOnFailure(exit) == exit # 0

\* removeCommand: `if (deleteResult.exitCode !== 0) logger.warn(...)`, no throw
DeleteFailedFatal(exit) == FALSE

\* a plausible slip: the branch is deleted without looking at worktree.branch
HasBranchAlways(worktree) == TRUE

\* removeCommand: `if (worktree.branch)`, null for a detached worktree
HasBranch(worktree) == worktree.branch # Null

\* the hook context removeCommand builds: `branchName: worktree.branch ?? ''`
RemoveContext(l) ==
  [branchName |-> IF l.target.branch = Null THEN "" ELSE l.target.branch,
   worktreePath |-> l.target.path, targetWorktree |-> Undefined]

\* interactiveSelect: null without a TTY, the only choice when there is one,
\* otherwise whatever the user picks, or null when the user quits
InteractiveSelect(choices) ==
  IF ~opts.tty THEN {NoWorktree}
  ELSE IF Cardinality(choices) = 1 THEN choices
  ELSE choices \cup {NoWorktree}

\* removeCommand, from its entry to the resolved worktree
RemoveResolve ==
  /\ pc = "start" /\ cmd = "remove"
  /\ LET inside == IsInsideGitRepo(cwd)
         t1 == <<VcsCall("isInsideGitRepo", cwd, IF inside THEN 0 ELSE 128)>>
         def == GetDefaultBranch
         t3 == t1 \o <<VcsCall("getRepoRoot", cwd, 0), VcsCall("getDefaultBranch", cwd, 0),
                       VcsCall("listWorktrees", cwd, 0)>>
         l == [NoLocals EXCEPT !.repoRoot = TopLevel(cwd), !.defaultBranch = def]
         found == FindWorktreeByBranch(opts.name)
         nonDefaultWorktrees == {w \in ListWorktrees : w.branch # def}
     IN  IF ~inside
         THEN /\ error' = WtError("NotInRepoError") /\ trace' = t1 /\ pc' = "done"
              /\ UNCHANGED loc
         ELSE IF opts.name # Undefined
         THEN IF found = NoWorktree
              THEN /\ error' = WtError("WorktreeNotFoundError") /\ trace' = t3 /\ pc' = "done"
                   /\ loc' = l
              ELSE /\ loc' = [l EXCEPT !.target = found] /\ trace' = t3 /\ pc' = "guard"
                   /\ UNCHANGED error
         ELSE IF nonDefaultWorktrees = {}
         THEN /\ error' = Ok /\ trace' = t3 /\ pc' = "done" /\ loc' = l
         ELSE \E selected \in InteractiveSelect(nonDefaultWorktrees) :
                /\ trace' = IF opts.tty /\ Cardinality(nonDefaultWorktrees) > 1
                            THEN Append(t3, Prompt("interactiveSelect", selected.path))
                            ELSE t3
                /\ IF selected = NoWorktree
                   THEN error' = Ok /\ pc' = "done" /\ loc' = l
                   ELSE loc' = [l EXCEPT !.target = selected] /\ pc' = "guard"
                        /\ UNCHANGED error
  /\ UNCHANGED <<envVars, gitVars, runner, stdout, shellCwd>>

\* removeCommand: the default-branch guard
RemoveGuard ==
  /\ pc = "guard"
  /\ IF IsDefaultBranchWorktree(loc.target, loc.defaultBranch)
     THEN error' = WtError("OnDefaultBranchError") /\ pc' = "done"
     ELSE pc' = "confirm" /\ UNCHANGED error
  /\ UNCHANGED <<envVars, gitVars, loc, runner, trace, stdout, shellCwd>>

\* a removal that goes ahead whatever confirmRemoval returned
ConfirmedAlways(answer) == TRUE

\* a plausible slip: a forced removal still needs a terminal
ConfirmedOnTty(answer) == opts.tty /\ (opts.force \/ answer = "y")

\* removeCommand: `if (!options.force)` and the result of confirmRemoval, which
\* is false without a TTY and otherwise answer.toLowerCase() === 'y'
Confirmed(answer) == opts.force \/ (opts.tty /\ answer = "y")

\* removeCommand: confirmRemoval unless --force, loadConfig, and the call of
\* the beforeRemove hooks
RemoveConfirm ==
  /\ pc = "confirm"
  /\ \E answer \in {"y", "n"}, configOk \in BOOLEAN :
       LET asked == ~opts.force /\ opts.tty
           confirmed == Confirmed(answer)
           t == IF asked
                THEN Append(trace, Answered("confirmRemoval", loc.target.path, answer))
                ELSE trace
       IN  IF ~confirmed
           THEN /\ error' = Ok /\ trace' = t /\ pc' = "done" /\ UNCHANGED runner
           ELSE IF ~configOk
           THEN /\ error' = WtError("Error") /\ trace' = t /\ pc' = "done" /\ UNCHANGED runner
           ELSE /\ trace' = Append(t, Event("beforeRemove", RemoveContext(loc)))
                /\ runner' = StartHooks("beforeRemove", RemoveContext(loc))
                /\ pc' = "removeWorktree"
                /\ UNCHANGED error
  /\ UNCHANGED <<envVars, gitVars, loc, stdout, shellCwd>>

\* removeCommand: removeWorktree(worktree.path), fatal when it fails
RemoveWorktreeStep ==
  /\ pc = "removeWorktree" /\ cmd = "remove" /\ Idle
  /\ \E exit \in RemoveWorktreeExits(loc.target.path) :
       /\ trace' = Append(trace, VcsCall("removeWorktree", loc.target.path, exit))
       /\ RemoveWorktreeEffect(loc.target.path, exit)
       /\ IF RemoveFailed(exit)
          THEN error' = WtError("WtError") /\ pc' = "done"
          ELSE pc' = "deleteBranch" /\ UNCHANGED error
  /\ UNCHANGED <<envVars, branches, loc, runner, stdout, shellCwd>>

\* removeCommand: deleteBranch(worktree.branch) when the worktree has a branch,
\* warned about when it fails, then the call of the afterRemove hooks
RemoveDeleteBranch ==
  /\ pc = "deleteBranch" /\ cmd = "remove" /\ Idle
  /\ IF HasBranch(loc.target)
     THEN \E exit \in DeleteBranchExits(loc.target.branch) :
            /\ branches' = IF exit = 0 THEN branches \ {loc.target.branch} ELSE branches
            /\ IF DeleteFailedFatal(exit)
               THEN /\ trace' = Append(trace, VcsCall("deleteBranch", loc.target.branch, exit))
                    /\ error' = WtError("WtError") /\ pc' = "done"
                    /\ UNCHANGED runner
               ELSE /\ trace' = trace \o <<VcsCall("deleteBranch", loc.target.branch, exit),
                                           Event("afterRemove", RemoveContext(loc))>>
                    /\ runner' = StartHooks("afterRemove", RemoveContext(loc))
                    /\ pc' = "finish"
                    /\ UNCHANGED error
     ELSE /\ trace' = Append(trace, Event("afterRemove", RemoveContext(loc)))
          /\ runner' = StartHooks("afterRemove", RemoveContext(loc))
          /\ pc' = "finish"
          /\ UNCHANGED <<branches, error>>
  /\ UNCHANGED <<envVars, worktrees, dirs, loc, stdout, shellCwd>>

\* a plausible slip: remove prints the removed path as create and merge print theirs
RemoveOutputPath(l) == <<l.target.path>>

\* removeCommand: what it writes with console.log, nothing (its last call is logger.success)
RemoveOutput(l) == <<>>

\* removeCommand returns after the afterRemove hooks
RemoveFinish ==
  /\ pc = "finish" /\ Idle
  /\ stdout' = stdout \o RemoveOutput(loc)
  /\ trace' = trace \o [i \in 1..Len(RemoveOutput(loc)) |-> Output(RemoveOutput(loc)[i])]
  /\ error' = Ok
  /\ pc' = "done"
  /\ UNCHANGED <<envVars, gitVars, loc, runner, shellCwd>>

\* ------------------------------------------------------ create workflow
\* a plausible slip: the path is not looked at before the worktree is added
PathExistsNever(path) == FALSE

\* createCommand: `if (fs.existsSync(worktreePath))`
PathExists(path) == path \in dirs

\* a plausible slip: a failed `git worktree add` is only warned about
CreateFailedIgnored(exit) == FALSE

\* createCommand: `if (result.exitCode !== 0) throw new WtError(...)`
CreateFailed(exit) == exit # 0

\* a plausible slip: ignored files are copied whatever the setting says
CopyEnabledAlways == TRUE

\* createCommand: `if (config.settings.copyGitIgnoredFiles)`
CopyEnabled == settings.copyGitIgnoredFiles

\* a plausible slip: a new branch is asked for whether or not the branch exists
NeedsNewBranchAlways == TRUE

\* createCommand: `const needsNewBranch = !branchExists(name)`
NeedsNewBranch == ~BranchExists(opts.name)

\* the hook context createCommand builds
CreateContext(l) ==
  [branchName |-> opts.name, worktreePath |-> l.worktreePath, targetWorktree |-> Undefined]

\* createCommand, from its entry to the call of the beforeCreate hooks
CreateStart ==
  /\ pc = "start" /\ cmd = "create"
  /\ \E configOk \in BOOLEAN :
       LET inside == IsInsideGitRepo(cwd)
           t1 == <<VcsCall("isInsideGitRepo", cwd, IF inside THEN 0 ELSE 128)>>
           t4 == t1 \o <<VcsCall("getRepoRoot", cwd, 0), VcsCall("getRepoRoot", cwd, 0),
                         VcsCall("getDefaultBranch", cwd, 0)>>
           l == [NoLocals EXCEPT !.repoRoot = TopLevel(cwd), !.defaultBranch = GetDefaultBranch,
                                 !.worktreePath = WorktreePathFor(opts.name)]
       IN  IF ~inside
           THEN /\ error' = WtError("NotInRepoError") /\ trace' = t1 /\ pc' = "done"
                /\ UNCHANGED <<loc, runner>>
           ELSE IF ~configOk
           THEN /\ error' = WtError("Error") /\ trace' = t4 /\ pc' = "done"
                /\ UNCHANGED <<loc, runner>>
           ELSE IF PathExists(l.worktreePath)
           THEN /\ error' = WtError("WorktreeExistsError") /\ trace' = t4 /\ pc' = "done"
                /\ loc' = l
                /\ UNCHANGED runner
           ELSE /\ trace' = Append(t4, Event("beforeCreate", CreateContext(l)))
                /\ runner' = StartHooks("beforeCreate", CreateContext(l))
                /\ loc' = l
                /\ pc' = "createWorktree"
                /\ UNCHANGED error
  /\ UNCHANGED <<envVars, gitVars, stdout, shellCwd>>

\* createCommand: branchExists, createWorktree (fatal when it fails), the copy
\* of the ignored files of the repository root, and the call of the afterCreate hooks
CreateWorktreeStep ==
  /\ pc = "createWorktree" /\ Idle
  /\ LET needsNewBranch == NeedsNewBranch
         path == loc.worktreePath
         t1 == Append(trace, VcsCall("branchExists", opts.name, IF needsNewBranch THEN 1 ELSE 0))
     IN  \E exit \in CreateWorktreeExits(path, opts.name, needsNewBranch) :
           LET t2 == Append(t1, VcsCall("createWorktree", path, exit))
               t3 == IF CopyEnabled THEN Append(t2, Copy(loc.repoRoot)) ELSE t2
           IN  /\ IF exit = 0
                  THEN /\ worktrees' = worktrees @@ (path :> opts.name)
                       /\ branches' = branches \cup {opts.name}
                       /\ dirs' = dirs \cup {path}
                  ELSE UNCHANGED <<worktrees, branches, dirs>>
               /\ IF CreateFailed(exit)
                  THEN /\ trace' = t2
                       /\ error' = WtError("WtError") /\ pc' = "done"
                       /\ UNCHANGED runner
                  ELSE /\ trace' = Append(t3, Event("afterCreate", CreateContext(loc)))
                       /\ runner' = StartHooks("afterCreate", CreateContext(loc))
                       /\ pc' = "createOutput"
                       /\ UNCHANGED error
     /\ loc' = [loc EXCEPT !.needsNewBranch = needsNewBranch]
  /\ UNCHANGED <<envVars, stdout, shellCwd>>

\* the body of a beforeCreate hook function, while it runs, makes the
\* directory the worktree is to go to (empty, or with files in it) or creates
\* the branch (`git branch <name>`)
HookFunctionActs ==
  /\ cmd = "create"
  /\ runner.state = "value"
  /\ runner.hookName = "beforeCreate"
  /\ runner.value.items[runner.pos] = "fn"
  /\ \/ /\ loc.worktreePath \notin dirs
        /\ dirs' = dirs \cup {loc.worktreePath}
        /\ \E op \in {"mkdir", "mkdirWithFiles"} :
             trace' = Append(trace, Effect(op, loc.worktreePath))
        /\ UNCHANGED <<worktrees, branches>>
     \/ /\ opts.name \notin branches
        /\ branches' = branches \cup {opts.name}
        /\ trace' = Append(trace, Effect("branch", opts.name))
        /\ UNCHANGED <<worktrees, dirs>>
  /\ UNCHANGED <<envVars, pc, loc, runner, stdout, error, shellCwd>>

\* createCommand: `console.log(worktreePath)` and return
CreateOutput ==
  /\ pc = "createOutput" /\ Idle
  /\ trace' = Append(trace, Output(loc.worktreePath))
  /\ stdout' = Append(stdout, loc.worktreePath)
  /\ error' = Ok
  /\ pc' = "done"
  /\ UNCHANGED <<envVars, gitVars, loc, runner, shellCwd>>

\* --------------------------------------------------------- shell wrapper
\* `-d "$output"`: the captured stdout names an existing directory
IsDirectory(output) == Len(output) = 1 /\ output[1] \in dirs

\* the wt() shell function: cd when the command exited 0 and printed a directory
ShellWrapper ==
  /\ pc = "done"
  /\ shellCwd' = IF ExitCode(error) = 0 /\ IsDirectory(stdout) THEN stdout[1] ELSE shellCwd
  /\ pc' = "exited"
  /\ UNCHANGED <<envVars, gitVars, loc, runner, trace, stdout, error>>

\* ------------------------------------------------------------------ Spec
Next ==
  \/ RunPluginHook
  \/ RunInlineHook
  \/ ExecuteHookItem
  \/ RunHooksReturn
  \/ CreateStart
  \/ CreateWorktreeStep
  \/ CreateOutput
  \/ MergeStart
  \/ MergeAttempt
  \/ MergeRemoveWorktree
  \/ MergeDeleteBranch
  \/ MergeAfterMerge
  \/ MergeOutput
  \/ RemoveResolve
  \/ RemoveGuard
  \/ RemoveConfirm
  \/ RemoveWorktreeStep
  \/ RemoveDeleteBranch
  \/ RemoveFinish
  \/ ShellWrapper

Spec == Init /\ [][Next]_vars

\* `wt merge` in the linked worktree, with the call of a hook item and the
\* settling of its promise as two steps
InitAwait ==
  /\ Init
  /\ cmd = "merge"
  /\ cwd = Wt
  /\ originHead = "none"
  /\ Wt \in DOMAIN worktrees /\ worktrees[Wt] = "feat"

NextAwait ==
  \/ RunPluginHook
  \/ RunInlineHook
  \/ ItemStart
  \/ ItemSettle
  \/ RunHooksReturn
  \/ MergeStart
  \/ MergeAttempt
  \/ MergeRemoveWorktree
  \/ MergeDeleteBranch
  \/ MergeAfterMerge
  \/ MergeOutput
  \/ ShellWrapper

SpecAwait == InitAwait /\ [][NextAwait]_vars

\* `wt remove` in a repository with two linked worktrees, one on feat and
\* one with a detached HEAD, so that the selection has several entries
InitRemove ==
  /\ cmd = "remove"
  /\ opts \in [keep : {FALSE}, force : BOOLEAN, name : Names, tty : BOOLEAN]
  /\ settings = [copyGitIgnoredFiles |-> TRUE]
  /\ originHead = "none"
  /\ worktrees = (Repo :> "main") @@ (Wt :> "feat") @@ (Out :> Null)
  /\ branches = BranchNames
  /\ dirs = UNION {Under(p) : p \in DOMAIN worktrees}
  /\ cwd \in {Repo, Out}
  /\ shellCwd = cwd
  /\ pc = "start"
  /\ loc = NoLocals
  /\ runner = IdleRunner
  /\ trace = <<>>
  /\ stdout = <<>>
  /\ error = NoError
  /\ call = NoCall

NextRemove ==
  \/ RunPluginHook
  \/ RunInlineHook
  \/ ExecuteHookItem
  \/ RunHooksReturn
  \/ RemoveResolve
  \/ RemoveGuard
  \/ RemoveConfirm
  \/ RemoveWorktreeStep
  \/ RemoveDeleteBranch
  \/ RemoveFinish
  \/ ShellWrapper

SpecRemove == InitRemove /\ [][NextRemove]_vars

\* `wt create` in the primary worktree, with beforeCreate hook functions that
\* act on the disk and the repository
InitCreate == Init /\ cmd = "create" /\ cwd = Repo /\ settings.copyGitIgnoredFiles

NextCreate ==
  \/ RunPluginHook
  \/ RunInlineHook
  \/ ExecuteHookItem
  \/ HookFunctionActs
  \/ RunHooksReturn
  \/ CreateStart
  \/ CreateWorktreeStep
  \/ CreateOutput
  \/ ShellWrapper

SpecCreate == InitCreate /\ [][NextCreate]_vars

\* `wt merge` alone
InitMerge == Init /\ cmd = "merge"

NextMerge ==
  \/ RunPluginHook
  \/ RunInlineHook
  \/ ExecuteHookItem
  \/ RunHooksReturn
  \/ MergeStart
  \/ MergeAttempt
  \/ MergeRemoveWorktree
  \/ MergeDeleteBranch
  \/ MergeAfterMerge
  \/ MergeOutput
  \/ ShellWrapper

SpecMerge == InitMerge /\ [][NextMerge]_vars

\* `wt merge` and `wt merge --keep` run in the worktree of feat, main being the
\* default branch
InitMergeFair ==
  /\ InitMerge
  /\ originHead = "none"
  /\ worktrees = (Repo :> "main") @@ (Wt :> "feat")
  /\ cwd = Wt

\* every hook and every git call returns: a step that can be taken is taken
SpecMergeFair == InitMergeFair /\ [][NextMerge]_vars /\ WF_vars(NextMerge)

\* ------------------------------------------------- library functions alone
commandVars ==
  <<cmd, opts, settings, cwd, originHead, worktrees, branches, dirs, pc, loc, runner,
    trace, stdout, error, shellCwd>>

\* no command is running
NoCommand ==
  /\ cmd = "none"
  /\ opts = [keep |-> FALSE, force |-> FALSE, name |-> Undefined, tty |-> FALSE]
  /\ settings = [copyGitIgnoredFiles |-> FALSE]
  /\ cwd = Repo
  /\ originHead = "none"
  /\ worktrees = (Repo :> "main")
  /\ branches = {"main"}
  /\ dirs = {Repo}
  /\ shellCwd = Repo
  /\ pc = "exited"
  /\ loc = NoLocals
  /\ runner = IdleRunner
  /\ trace = <<>>
  /\ stdout = <<>>
  /\ error = NoError

\* longest generated worktreePath pattern, in atoms
MaxTemplate == 3

\* defaultSettings.worktreePath
DefaultPattern == <<DotDot, Sep, "{repo}", "-", "{branch}">>

PatternAtoms == {Sep, DotDot, "{repo}", "{branch}", "{parent}", "-", "worktrees"}

\* the patterns of the README and every short pattern
Patterns ==
  {DefaultPattern,
   <<DotDot, Sep, "worktrees", Sep, "{branch}">>,
   <<DotDot, Sep, DotDot, Sep, "{repo}", "-", "{branch}">>}
    \cup UNION {[1..n -> PatternAtoms] : n \in 1..MaxTemplate}

\* branch names git accepts
BranchStrings == {<<"feature-x">>, <<"feat", Sep, "x">>, <<"a", "$&", "b">>, <<"$$">>}

RepoRoots == {<<<<"home">>, <<"proj">>>>, <<<<"proj">>>>}

\* the repository root and directories below it
DirsInside(root) == {root, Append(root, <<"src">>), root \o <<<<"src">>, <<"lib">>>>}

InitPath ==
  /\ NoCommand
  /\ \E pattern \in Patterns, name \in BranchStrings, repoRoot \in RepoRoots :
       \E dir \in DirsInside(repoRoot) :
         call = [fn |-> "worktreePath",
                 in |-> [pattern |-> pattern, name |-> name, repoRoot |-> repoRoot,
                         cwd |-> dir],
                 out |-> <<>>, done |-> FALSE]

\* createCommand up to `const worktreePath = path.resolve(cwd, resolvedPath)`
ApplyWorktreePath ==
  /\ call.fn = "worktreePath"
  /\ ~call.done
  /\ call' = [call EXCEPT !.out = WorktreePath(call.in), !.done = TRUE]
  /\ UNCHANGED commandVars

NextPath == ApplyWorktreePath

SpecPath == InitPath /\ [][NextPath]_vars

\* ---------------------------------------------------- copyGitIgnoredFiles
\* most entries of the source directory that git does not ignore away
MaxFiles == 2

\* relative paths, as sequences of names; the second one is the name
\* caf<e acute>.env, written with its two UTF-8 bytes in octal
CopyPaths ==
  {<<"a.env">>, <<"caf\\303\\251.env">>, <<"d", "e", "f.env">>, <<"node_modules.env">>,
   <<"node_modules", "x", "i.js">>, <<"pkg", "node_modules", "j.js">>}

\* what an entry is on disk, and what git makes of it
EntryKinds == {"file", "linkToFile", "linkToDir", "linkBroken", "repository", "fifo"}
Entries ==
  [kind : {"file", "linkToFile", "linkToDir", "linkBroken"}, status : {"tracked", "ignored"}]
    \cup [kind : {"repository", "fifo"}, status : {"ignored"}]
    \cup [kind : {"file"}, status : {"untracked"}]

\* git prints a name with bytes above 0x7f in double quotes, with the bytes
\* escaped in octal (core.quotePath)
NeedsQuoting(path) == \E i \in 1..Len(path) : path[i] = "caf\\303\\251.env"

\* the lines of `git ls-files --others --ignored --exclude-standard`: the
\* untracked ignored files and symbolic links, and an ignored nested
\* repository as one line; no line for a fifo or socket
LsFilesIgnored(tree) ==
  {[path |-> p, quoted |-> NeedsQuoting(p)] :
     p \in {q \in DOMAIN tree : tree[q].status = "ignored" /\ tree[q].kind # "fifo"}}

\* !file.startsWith('node_modules/') && !file.includes('/node_modules/')
NotInNodeModules(line) ==
  /\ ~(~line.quoted /\ Len(line.path) > 1 /\ line.path[1] = "node_modules")
  /\ ~(\E i \in 2..(Len(line.path) - 1) : line.path[i] = "node_modules")

\* fs.existsSync(path.join(srcDir, file)): the quoted form of a name is not
\* the name of the file, and existsSync follows a symbolic link
ExistsSync(tree, line) == ~line.quoted /\ tree[line.path].kind # "linkBroken"

\* fs.statSync(srcPath).isFile(): statSync follows a symbolic link
IsFile(tree, line) == tree[line.path].kind \in {"file", "linkToFile"}

\* the directories above a path
ParentDirs(path) == {SubSeq(path, 1, n) : n \in 1..(Len(path) - 1)}

\* copyGitIgnoredFiles(srcDir, dstDir, {includeNodeModules}): the number it
\* returns and what it leaves in the empty directory dstDir
CopyGitIgnoredFiles(in) ==
  IF in.exitCode # 0 THEN [count |-> 0, files |-> {}, directories |-> {}]
  ELSE LET listed == LsFilesIgnored(in.tree)
           files == IF in.includeNodeModules THEN listed
                    ELSE {f \in listed : NotInNodeModules(f)}
           copied == {f \in files : ExistsSync(in.tree, f) /\ IsFile(in.tree, f)}
       IN  [count |-> Cardinality(copied),
            files |-> {f.path : f \in copied},
            directories |-> UNION {ParentDirs(f.path) : f \in copied}]

InitCopy ==
  /\ NoCommand
  /\ \E present \in SUBSET CopyPaths :
       /\ Cardinality(present) <= MaxFiles
       /\ \E tree \in [present -> Entries], include \in BOOLEAN, exitCode \in {0, 128} :
            call = [fn |-> "copyGitIgnoredFiles",
                    in |-> [tree |-> tree, includeNodeModules |-> include,
                            exitCode |-> exitCode],
                    out |-> <<>>, done |-> FALSE]

ApplyCopyGitIgnoredFiles ==
  /\ call.fn = "copyGitIgnoredFiles"
  /\ ~call.done
  /\ call' = [call EXCEPT !.out = CopyGitIgnoredFiles(call.in), !.done = TRUE]
  /\ UNCHANGED commandVars

NextCopy == ApplyCopyGitIgnoredFiles

SpecCopy == InitCopy /\ [][NextCopy]_vars

\* ---------------------------------------------------------- listWorktrees
\* most entries of `git worktree list --porcelain`
MaxWorktrees == 2

\* what git prints after the worktree and HEAD lines of an entry: a branch
\* line, `detached`, or `bare` for the entry of a bare repository
HeadLines ==
  {[k |-> "branch", v |-> b] : b \in BranchNames}
    \cup {[k |-> "detached", v |-> ""], [k |-> "bare", v |-> ""]}

\* the entries of a listing: distinct paths, the bare repository first
Listings ==
  {l \in UNION {[1..n -> [path : {Repo, Wt, Out}, head : HeadLines, locked : BOOLEAN]] :
                  n \in 0..MaxWorktrees} :
     /\ \A i, j \in 1..Len(l) : l[i].path = l[j].path => i = j
     /\ \A i \in 2..Len(l) : l[i].head.k # "bare"}

\* the lines git prints for one entry
EntryLines(e) ==
  <<[k |-> "worktree", v |-> e.path]>>
    \o (IF e.head.k = "bare" THEN <<>> ELSE <<[k |-> "HEAD", v |-> "sha"]>>)
    \o <<IF e.head.k = "branch"
          THEN [k |-> "branch", v |-> <<"refs/heads/", e.head.v>>]
          ELSE e.head>>
    \o (IF e.locked THEN <<[k |-> "locked", v |-> ""]>> ELSE <<>>)

BlankLine == [k |-> "", v |-> ""]

\* result.stdout.split('\n'): the entries with an empty line between them;
\* exec trims the one after the last entry
RECURSIVE PorcelainLines(_)
PorcelainLines(l) ==
  IF l = <<>> THEN <<BlankLine>>
  ELSE IF Len(l) = 1 THEN EntryLines(l[1])
  ELSE EntryLines(l[1]) \o <<BlankLine>> \o PorcelainLines(Tail(l))

\* let current: Partial<Worktree> = {}; isDetached is "true", "false" or not set
EmptyCurrent == [path |-> Undefined, branch |-> Undefined, isDetached |-> Undefined]

\* line.slice(7).replace('refs/heads/', '')
BranchOfRef(ref) == IF ref[1] = "refs/heads/" THEN ref[2] ELSE ref[1]

\* the `detached` line without `current.isDetached = true`
OnDetachedLineBranchOnly(current) == [current EXCEPT !.branch = Null]

\* line === 'detached'
OnDetachedLine(current) == [current EXCEPT !.isDetached = "true", !.branch = Null]

\* worktrees.push({path, branch: current.branch ?? null, isDetached: current.isDetached ?? false})
Pushed(worktreeList, current) ==
  IF current.path = Undefined THEN worktreeList
  ELSE Append(worktreeList,
              [path |-> current.path,
               branch |-> IF current.branch = Undefined THEN Null ELSE current.branch,
               isDetached |-> IF current.isDetached = Undefined THEN FALSE
                              ELSE current.isDetached = "true"])

\* the loop of listWorktrees over the lines, and the push after it
RECURSIVE ParseLines(_, _, _)
ParseLines(lines, worktreeList, current) ==
  IF lines = <<>> THEN Pushed(worktreeList, current)
  ELSE LET line == Head(lines)
       IN  IF line.k = "worktree"
           THEN ParseLines(Tail(lines), worktreeList, [current EXCEPT !.path = line.v])
           ELSE IF line.k = "branch"
           THEN ParseLines(Tail(lines), worktreeList,
                           [current EXCEPT !.branch = BranchOfRef(line.v),
                                           !.isDetached = "false"])
           ELSE IF line.k = "detached"
           THEN ParseLines(Tail(lines), worktreeList, OnDetachedLine(current))
           ELSE IF line.k = ""
           THEN ParseLines(Tail(lines), Pushed(worktreeList, current), EmptyCurrent)
           ELSE ParseLines(Tail(lines), worktreeList, current)

\* listWorktrees() when git prints the listing l, or fails
ListWorktreesOf(in) ==
  IF in.exitCode # 0 THEN <<>> ELSE ParseLines(PorcelainLines(in.listing), <<>>, EmptyCurrent)

InitList ==
  /\ NoCommand
  /\ \E l \in Listings, exitCode \in {0, 128} :
       call = [fn |-> "listWorktrees", in |-> [listing |-> l, exitCode |-> exitCode],
               out |-> <<>>, done |-> FALSE]

ApplyListWorktrees ==
  /\ call.fn = "listWorktrees"
  /\ ~call.done
  /\ call' = [call EXCEPT !.out = ListWorktreesOf(call.in), !.done = TRUE]
  /\ UNCHANGED commandVars

NextList == ApplyListWorktrees

SpecList == InitList /\ [][NextList]_vars

\* ------------------------------------------------ claude plugin: beforeRemove
\* names of session files without their extension, as sequences of atoms
SessionNames == {<<"s">>, <<"s", "-", "feat">>, <<"t">>}

\* ctx.branchName
SessionBranches == {<<"feat">>, <<"feat", Sep, "x">>}

\* a directory that does not exist
NoDirectory == [exists |-> FALSE, files |-> <<>>]

\* a project directory with the session files names: each file is mapped to
\* where its content comes from
ProjectDir(origin, names) == [exists |-> TRUE, files |-> [n \in names |-> <<origin, n>>]]

\* `${base}${branchSuffix}${ext}` with branchSuffix = `-${ctx.branchName}`
Suffixed(base, branchName) == base \o <<"-">> \o branchName

\* the orders in which fs.readdirSync can return the names
Orders(names) ==
  {o \in [1..Cardinality(names) -> names] : \A i, j \in 1..Len(o) : o[i] = o[j] => i = j}

\* one round of the loop: fs.renameSync(oldPath, finalNewPath) inside try.
\* rename replaces a file that exists at the new path, and fails (the file
\* stays where it is) when the new name has a directory part that does not exist
MoveFile(d, file, branchName) ==
  LET finalNew == IF file \in DOMAIN d.new THEN Suffixed(file, branchName) ELSE file
  IN  IF \E i \in 1..Len(finalNew) : finalNew[i] = Sep THEN d
      ELSE [old |-> [n \in DOMAIN d.old \ {file} |-> d.old[n]],
            new |-> [n \in DOMAIN d.new \cup {finalNew} |->
                       IF n = finalNew THEN d.old[file] ELSE d.new[n]],
            movedCount |-> d.movedCount + 1]

RECURSIVE MoveFiles(_, _, _)
MoveFiles(d, files, branchName) ==
  IF files = <<>> THEN d
  ELSE MoveFiles(MoveFile(d, Head(files), branchName), Tail(files), branchName)

\* claudePlugin().hooks.beforeRemove(ctx) with readdirSync returning files
ClaudeBeforeRemove(in, files) ==
  IF ~in.projectsDir \/ in.targetWorktree = Undefined \/ ~in.old.exists
  THEN [old |-> in.old, new |-> in.new, movedCount |-> 0]
  ELSE LET d == MoveFiles([old |-> in.old.files, new |-> in.new.files, movedCount |-> 0],
                          files, in.branchName)
       IN  [old |-> [exists |-> DOMAIN d.old # {}, files |-> d.old],
            new |-> [exists |-> TRUE, files |-> d.new],
            movedCount |-> d.movedCount]

InitClaude ==
  /\ NoCommand
  /\ \E projectsDir \in BOOLEAN, targetWorktree \in {Undefined, Repo},
        branchName \in SessionBranches,
        old \in {NoDirectory} \cup {ProjectDir("old", n) : n \in SUBSET SessionNames},
        new \in {NoDirectory} \cup {ProjectDir("new", n) : n \in SUBSET SessionNames} :
       /\ ~projectsDir => (old = NoDirectory /\ new = NoDirectory)
       /\ call = [fn |-> "beforeRemove",
                  in |-> [projectsDir |-> projectsDir, targetWorktree |-> targetWorktree,
                          branchName |-> branchName, old |-> old, new |-> new],
                  out |-> <<>>, done |-> FALSE]

ApplyClaudeBeforeRemove ==
  /\ call.fn = "beforeRemove"
  /\ ~call.done
  /\ \E files \in Orders(DOMAIN call.in.old.files) :
       call' = [call EXCEPT !.out = ClaudeBeforeRemove(call.in, files), !.done = TRUE]
  /\ UNCHANGED commandVars

NextClaude == ApplyClaudeBeforeRemove

SpecClaude == InitClaude /\ [][NextClaude]_vars

\* ------------------------------------------- executeHookItem on a command
\* what a child process wrote to one of its streams, line by line
StdoutTexts == {<<>>, <<"o1">>, <<"o1", "o2">>, <<"", "o1", "">>}
StderrTexts == {<<>>, <<"e1">>, <<"e1", "e2">>, <<"", "e1", "">>}

\* String.prototype.trim on a text given by its lines: the empty lines at
\* both ends go
RECURSIVE TrimStart(_)
TrimStart(text) == IF text # <<>> /\ Head(text) = "" THEN TrimStart(Tail(text)) ELSE text

RECURSIVE TrimEnd(_)
TrimEnd(text) ==
  IF text # <<>> /\ text[Len(text)] = "" THEN TrimEnd(SubSeq(text, 1, Len(text) - 1))
  ELSE text

Trim(text) == TrimEnd(TrimStart(text))

\* exec(command, {cwd}): execSync returns the child's stdout when it exits 0,
\* and what it wrote to stderr is not in the result then; it throws when the
\* child exits with another status, and when the child cannot be started in
\* cwd the error has no status
Exec(child, cwdExists) ==
  IF ~cwdExists THEN [stdout |-> <<>>, stderr |-> <<>>, exitCode |-> 1]
  ELSE IF child.status = 0
  THEN [stdout |-> Trim(child.stdout), stderr |-> <<>>, exitCode |-> 0]
  ELSE [stdout |-> Trim(child.stdout), stderr |-> Trim(child.stderr),
        exitCode |-> child.status]

\* executeHookItem(item, ctx) for a command string: the directory the command
\* is run in, the lines written with console.error, and whether it threw
ExecuteCommandItem(in) ==
  LET result == Exec(in.child, in.cwdExists)
  IN  [cwd |-> in.worktreePath,
       log |-> <<"Running">> \o result.stdout \o result.stderr,
       raised |-> result.exitCode # 0]

InitItem ==
  /\ NoCommand
  /\ \E out \in StdoutTexts, err \in StderrTexts, status \in {0, 1, 2},
        worktreePath \in {Repo, Wt, New}, cwdExists \in BOOLEAN :
       call = [fn |-> "executeHookItem",
               in |-> [child |-> [stdout |-> out, stderr |-> err, status |-> status],
                       worktreePath |-> worktreePath, cwdExists |-> cwdExists],
               out |-> <<>>, done |-> FALSE]

ApplyExecuteHookItem ==
  /\ call.fn = "executeHookItem"
  /\ ~call.done
  /\ call' = [call EXCEPT !.out = ExecuteCommandItem(call.in), !.done = TRUE]
  /\ UNCHANGED commandVars

NextItem == ApplyExecuteHookItem

SpecItem == InitItem /\ [][NextItem]_vars

\* ------------------------------------------------------ loadConfig on its own
\* deepest start directory, in path segments below the filesystem root
MaxDepth == 2

\* CONFIG_FILENAMES, in the order loadConfig tries them
CONFIG_FILENAMES == <<"wt.config.ts", "wt.config.js", "wt.config.mjs">>

\* the directories /, /a, /a/a, ... as lists of segments
ChainDirs == {[i \in 1..n |-> "a"] : n \in 0..MaxDepth}

\* the config files that can be on disk: a directory and a file name
ConfigPaths == {[dir |-> d, name |-> CONFIG_FILENAMES[i]] :
                  d \in ChainDirs, i \in 1..Len(CONFIG_FILENAMES)}

\* findConfigFile: walk from startDir to the root looking for one file name;
\* <<>> stands for null
RECURSIVE FindConfigFile(_, _, _)
FindConfigFile(currentDir, filename, files) ==
  LET configPath == [dir |-> currentDir, name |-> filename]
      parentDir == Dirname(currentDir)
  IN  IF configPath \in files THEN <<configPath>>
      ELSE IF parentDir = currentDir THEN <<>>
      ELSE FindConfigFile(parentDir, filename, files)

\* what loadConfig returns when no config file was found
DefaultConfig ==
  [configPath |-> <<>>, settings |-> "defaultSettings", plugins |-> <<>>, hooks |-> <<>>]

\* resolveConfig of the module imported from configPath
ConfigFrom(configPath) ==
  [configPath |-> <<configPath>>, settings |-> "resolved", plugins |-> <<"module.plugins">>,
   hooks |-> <<"module.hooks">>]

\* loadConfig: the first file name, in CONFIG_FILENAMES order, that
\* findConfigFile finds anywhere up the chain
RECURSIVE LoadConfigFrom(_, _)
LoadConfigFrom(in, i) ==
  IF i > Len(CONFIG_FILENAMES) THEN DefaultConfig
  ELSE LET found == FindConfigFile(in.startDir, CONFIG_FILENAMES[i], in.files)
       IN  IF found # <<>> THEN ConfigFrom(found[1]) ELSE LoadConfigFrom(in, i + 1)

LoadConfig(in) == LoadConfigFrom(in, 1)

InitConfig ==
  /\ NoCommand
  /\ \E startDir \in ChainDirs, files \in SUBSET ConfigPaths :
       call = [fn |-> "loadConfig", in |-> [startDir |-> startDir, files |-> files],
               out |-> <<>>, done |-> FALSE]

ApplyLoadConfig ==
  /\ call.fn = "loadConfig"
  /\ ~call.done
  /\ call' = [call EXCEPT !.out = LoadConfig(call.in), !.done = TRUE]
  /\ UNCHANGED commandVars

NextConfig == ApplyLoadConfig

SpecConfig == InitConfig /\ [][NextConfig]_vars

TypeOK ==
  /\ cmd \in {"create", "merge", "remove"}
  /\ pc \in {"start", "createWorktree", "createOutput", "merge", "removeWorktree", "deleteBranch", "afterMerge", "output",
             "guard", "confirm", "finish", "done", "exited"}
  /\ runner.state \in {"idle", "loop", "value", "raised"}
  /\ DOMAIN worktrees \subseteq AllDirs
  /\ branches \subseteq BranchNames \cup CreateNames
  /\ dirs \subseteq AllDirs
  /\ shellCwd \in AllDirs


\* ------------------------------------------------- reading the trace
Done == pc \in {"done", "exited"}

MutatingOps == {"createWorktree", "mergeBranch", "removeWorktree", "deleteBranch"}

IsStep(e) ==
  e.t = "event" \/ e.t = "out" \/ e.t = "copy" \/ (e.t = "vcs" /\ e.op \in MutatingOps)

\* lifecycle events, mutating git calls, file copies and success-channel writes, in order
Steps == SelectSeq(trace, IsStep)

Ops(s) == [i \in 1..Len(s) |-> s[i].op]

IsPrefix(s, t) == Len(s) <= Len(t) /\ \A i \in 1..Len(s) : s[i] = t[i]

Range(s) == {s[i] : i \in 1..Len(s)}

Last(s) == s[Len(s)]

Called(op) == \E i \in 1..Len(trace) : trace[i].t = "vcs" /\ trace[i].op = op

CalledWith(op, exits) ==
  \E i \in 1..Len(trace) : trace[i].t = "vcs" /\ trace[i].op = op /\ trace[i].exit \in exits

Fired(hookName) == \E i \in 1..Len(trace) : trace[i].t = "event" /\ trace[i].op = hookName

Prompted(op) == \E i \in 1..Len(trace) : trace[i].t = "prompt" /\ trace[i].op = op

\* the slots whose hook was found defined, in the order they were looked at
SlotsDefined(seen) ==
  LET F[i \in 0..Len(seen)] ==
        IF i = 0 THEN <<>> ELSE IF seen[i] THEN Append(F[i - 1], i) ELSE F[i - 1]
  IN  F[Len(seen)]

AllSlots == [i \in 1..InlineSlot |-> i]

\* the runHooks call has gone through every plugin and the inline hook
CallComplete == runner.state = "loop" /\ runner.slot = InlineSlot + 1

ItemFailed(item) == item.res \notin {"ok", "exit0"}

\* ---------------------------------------------------------------- claims

\* C1: one runHooks call executes exactly the hooks defined for the hook name,
\* each once, plugins in list order and then the inline hook, whether or not
\* any of them raised.
C1_HooksRunInOrder ==
  /\ runner.state \in {"loop", "value"} => runner.ran = SlotsDefined(runner.seen)
  /\ runner.state = "loop" => Len(runner.seen) = runner.slot - 1
  /\ runner.state = "value" => Len(runner.seen) = runner.slot
  /\ CallComplete => Len(runner.seen) = InlineSlot

\* every plugin and the inline hook defined the hook, all ran, and one failed
C1_Witness ==
  /\ CallComplete
  /\ runner.ran = AllSlots
  /\ runner.warnings # <<>>

\* C2: no hook failure leaves runHooks: a thrown error, a rejected promise and
\* a non-zero command exit each end as one warning, and the hooks of the later
\* plugins and the inline hook still run.
C2_FailuresNeverPropagate ==
  /\ runner.state # "raised"
  /\ error.name # "HookError"
  /\ Range(runner.warnings) \subseteq Range(runner.ran)
  /\ CallComplete =>
       \A i \in Range(runner.warnings) : \A j \in (i + 1)..InlineSlot :
          runner.seen[j] => j \in Range(runner.ran)

\* the first plugin's hook failed, every later hook ran, and the call is about to return
C2_Witness ==
  /\ CallComplete
  /\ runner.warnings # <<>>
  /\ runner.warnings[1] = 1
  /\ Range(runner.ran) = 1..InlineSlot

\* C3: the items of a hook array run in array order and the first item that
\* fails ends the array: no later item runs, every earlier item ran, and the
\* failure is one warning for that hook.
C3_ListStopsAtFirstFailure ==
  LET its == runner.items
      v == runner.value
  IN  /\ Len(its) <= Len(v.items)
      /\ \A k \in 1..Len(its) : its[k].pos = k /\ its[k].kind = v.items[k]
      /\ \A k \in 1..(Len(its) - 1) : ~ItemFailed(its[k])
      /\ runner.state = "value" =>
           /\ runner.pos = Len(its) + 1
           /\ \A k \in 1..Len(its) : ~ItemFailed(its[k])
      /\ runner.state = "loop" =>
           \/ Len(its) = Len(v.items) /\ (its = <<>> \/ ~ItemFailed(Last(its)))
           \/ /\ its # <<>> /\ ItemFailed(Last(its))
              /\ runner.warnings # <<>>
              /\ Last(runner.warnings) = Last(runner.ran)

\* the inline array [fn1, "exit 1", fn2]: fn1 ran, the command failed, fn2 did
\* not run, and the first plugin's hook ran
C3_Witness ==
  /\ CallComplete
  /\ runner.value = [shape |-> "list", items |-> <<"fn", "cmd", "fn">>]
  /\ runner.items = <<[pos |-> 1, kind |-> "fn", res |-> "ok"],
                      [pos |-> 2, kind |-> "cmd", res |-> "exit1"]>>
  /\ Last(runner.ran) = InlineSlot
  /\ 1 \in Range(runner.ran)
  /\ runner.warnings = <<InlineSlot>>


\* the git merge call of this run was rejected / accepted
MergeRejected == cmd = "merge" /\ CalledWith("mergeBranch", {1})

MergeAccepted == cmd = "merge" /\ CalledWith("mergeBranch", {0})

\* the primary worktree: the one checked out to the default branch
PrimaryPath == FindWorktreeByBranch(GetDefaultBranch).path

\* C4: when git merge exits non-zero the merge command writes exactly the
\* original working directory to stdout, fires no beforeRemove, afterRemove or
\* afterMerge event, calls neither remove-worktree nor delete-branch, and ends
\* with a MergeConflictError carrying the default branch and the primary
\* worktree path, exit code 1.
C4_MergeFailurePath ==
  MergeRejected =>
    /\ Done
    /\ stdout = <<cwd>>
    /\ Ops(Steps) = <<"beforeMerge", "mergeBranch", "console.log">>
    /\ ~Fired("beforeRemove") /\ ~Fired("afterRemove") /\ ~Fired("afterMerge")
    /\ ~Called("removeWorktree") /\ ~Called("deleteBranch")
    /\ error.name = "MergeConflictError"
    /\ error.targetBranch = GetDefaultBranch
    /\ error.targetWorktree = PrimaryPath
    /\ ExitCode(error) = 1

\* a rejected merge invoked from a subdirectory of the linked worktree
C4_Witness ==
  /\ MergeRejected
  /\ pc = "done"
  /\ cwd = WtSub
  /\ error.targetWorktree = Repo

\* C5: composed with the shell wrapper, a merge run whose git merge fails
\* leaves the shell in the directory it was in before the command.
C5_ShellStaysOnMergeFailure == MergeRejected => shellCwd = cwd

\* the wrapper has run after a rejected merge
C5_Witness ==
  /\ MergeRejected
  /\ pc = "exited"
  /\ stdout = <<cwd>>
  /\ cwd # PrimaryPath

CleanupSteps ==
  <<"beforeMerge", "mergeBranch", "beforeRemove", "removeWorktree", "deleteBranch",
    "afterRemove", "afterMerge", "console.log">>

\* C6: after a successful merge without keep the events fire in the order
\* beforeMerge, beforeRemove, afterRemove, afterMerge with remove-worktree and
\* delete-branch between beforeRemove and afterRemove, whatever those two calls
\* exit with, and the primary worktree path is then written to stdout.
C6_CleanupOrder ==
  (cmd = "merge" /\ ~opts.keep /\ ~MergeRejected) =>
    /\ IsPrefix(Ops(Steps), CleanupSteps)
    /\ (MergeAccepted /\ Done) =>
         /\ Ops(Steps) = CleanupSteps
         /\ stdout = <<PrimaryPath>>
         /\ error = Ok

\* both clean-up calls failed and the command still completed
C6_Witness ==
  /\ MergeAccepted /\ ~opts.keep /\ pc = "done"
  /\ CalledWith("removeWorktree", {128})
  /\ CalledWith("deleteBranch", {1})
  /\ Fired("afterRemove") /\ Fired("afterMerge")

\* C7: after a merge run that succeeds without keep and returns, the merged
\* worktree is no longer listed and the merged branch no longer exists.
C7_WorktreeAndBranchGone ==
  (MergeAccepted /\ ~opts.keep /\ Done /\ error = Ok) =>
    /\ TopLevel(cwd) \notin DOMAIN worktrees
    /\ loc.currentBranch \notin branches

KeepSteps == <<"beforeMerge", "mergeBranch", "afterMerge", "console.log">>

\* C8: after a successful merge with keep exactly beforeMerge and afterMerge
\* fire, in that order, no remove-worktree or delete-branch call is made, the
\* worktree and the branch still exist, and the primary worktree path is
\* written to stdout.
C8_KeepPath ==
  (cmd = "merge" /\ opts.keep /\ ~MergeRejected) =>
    /\ IsPrefix(Ops(Steps), KeepSteps)
    /\ (MergeAccepted /\ Done) =>
         /\ Ops(Steps) = KeepSteps
         /\ stdout = <<PrimaryPath>>
         /\ error = Ok
         /\ TopLevel(cwd) \in DOMAIN worktrees
         /\ worktrees[TopLevel(cwd)] = loc.currentBranch
         /\ loc.currentBranch \in branches
         /\ cwd \in dirs

\* a kept merge has returned
C8_Witness ==
  /\ MergeAccepted /\ opts.keep /\ pc = "done"
  /\ Fired("afterMerge")
  /\ stdout = <<Repo>>

\* merge was invoked in a worktree checked out to the default branch
MergeOnDefault ==
  /\ cmd = "merge"
  /\ pc # "start"
  /\ IsInsideGitRepo(cwd)
  /\ CurrentBranchOf(cwd) = GetDefaultBranch

\* C9 as stated: merge invoked on the default branch fails with no VCS call
\* at all and no hook.
C9_NoVcsCallAtAll ==
  MergeOnDefault =>
    /\ Done
    /\ error.name = "AlreadyOnDefault"
    /\ \A i \in 1..Len(trace) : trace[i].t # "vcs" /\ trace[i].t # "event"

GuardQueries == <<"isInsideGitRepo", "getRepoRoot", "getCurrentBranch", "getDefaultBranch">>

\* C9 amended: merge invoked on the default branch fails at once with exit
\* code 1, no hook and no mutating VCS call; the only VCS calls are the
\* read-only queries that evaluate the guard.
C9_GuardOnlyQueries ==
  MergeOnDefault =>
    /\ Done
    /\ error = WtError("AlreadyOnDefault")
    /\ ExitCode(error) = 1
    /\ Ops(trace) = GuardQueries
    /\ \A i \in 1..Len(trace) : trace[i].t = "vcs"
    /\ Steps = <<>>
    /\ stdout = <<>>
    /\ runner = IdleRunner

\* the guard fired where the default branch is not "main"
C9_Witness ==
  /\ MergeOnDefault
  /\ pc = "done"
  /\ GetDefaultBranch = "feat"
  /\ cwd = WtSub

\* C10: the remove workflow applied to the worktree of the default branch fails
\* with the default-branch error for every value of the force flag, before any
\* confirmation prompt, hook, remove-worktree or delete-branch call; the
\* interactive selection never resolves to that worktree.
C10_RemoveGuard ==
  /\ (cmd = "remove" /\ pc \notin {"start", "guard"} /\ IsInsideGitRepo(cwd)
      /\ opts.name = GetDefaultBranch /\ FindWorktreeByBranch(opts.name) # NoWorktree) =>
       /\ Done
       /\ error = WtError("OnDefaultBranchError")
       /\ ExitCode(error) = 1
       /\ ~Prompted("confirmRemoval")
       /\ Steps = <<>>
       /\ runner = IdleRunner
       /\ loc.target = FindWorktreeByBranch(GetDefaultBranch)
  /\ (cmd = "remove" /\ opts.name = Undefined /\ loc.target # NoWorktree) =>
       loc.target.branch # GetDefaultBranch
  /\ (cmd = "remove" /\ (pc \in {"confirm", "removeWorktree", "deleteBranch", "finish"}
                         \/ Steps # <<>> \/ Prompted("confirmRemoval"))) =>
       loc.target.branch # loc.defaultBranch

\* the guard rejected a forced removal of the default branch's worktree
C10_Witness ==
  /\ cmd = "remove"
  /\ opts.force
  /\ opts.name = GetDefaultBranch
  /\ pc = "done"
  /\ error.name = "OnDefaultBranchError"

\* the git worktree remove call of this remove run was rejected / accepted
RemoveRejected ==
  cmd = "remove" /\ \E i \in 1..Len(trace) :
     trace[i].t = "vcs" /\ trace[i].op = "removeWorktree" /\ trace[i].exit # 0

RemoveAccepted == cmd = "remove" /\ CalledWith("removeWorktree", {0})

\* C11: in the remove workflow a non-zero exit of remove-worktree is fatal: the
\* command ends with a WtError, exit code 1, delete-branch is never called and
\* no afterRemove event fires, while the beforeRemove hooks have all run before
\* the call was made.
C11_RemoveFailureFatal ==
  /\ RemoveRejected =>
       /\ Done
       /\ error = WtError("WtError")
       /\ ExitCode(error) = 1
       /\ Ops(Steps) = <<"beforeRemove", "removeWorktree">>
       /\ ~Called("deleteBranch")
       /\ ~Fired("afterRemove")
       /\ runner = IdleRunner
       /\ loc.target.path \in DOMAIN worktrees
       /\ stdout = <<>>
  /\ (cmd = "remove" /\ pc = "removeWorktree") =>
       /\ Ops(Steps) = <<"beforeRemove">>
       /\ ~Called("removeWorktree")

\* git refused to remove the linked worktree and the command has ended
C11_Witness ==
  /\ RemoveRejected
  /\ pc = "done"
  /\ loc.target.path = Wt
  /\ Fired("beforeRemove")

RemoveStepsBranch == <<"beforeRemove", "removeWorktree", "deleteBranch", "afterRemove">>

RemoveStepsDetached == <<"beforeRemove", "removeWorktree", "afterRemove">>

\* C12: a confirmed remove run goes through beforeRemove, remove-worktree,
\* delete-branch, afterRemove in that order; delete-branch is called exactly
\* when the worktree has a branch, and its failure is only a warning: the
\* afterRemove event still fires and the command ends successfully.
C12_RemoveOrder ==
  cmd = "remove" =>
    /\ IsPrefix(Ops(Steps), IF loc.target.branch # Null THEN RemoveStepsBranch
                            ELSE RemoveStepsDetached)
    /\ Called("deleteBranch") => loc.target.branch # Null
    /\ (RemoveAccepted /\ pc \in {"finish", "done", "exited"}) =>
         /\ Ops(Steps) = IF loc.target.branch # Null THEN RemoveStepsBranch
                         ELSE RemoveStepsDetached
         /\ Called("deleteBranch") <=> loc.target.branch # Null
         /\ Fired("afterRemove")
    /\ (RemoveAccepted /\ Done) => error = Ok /\ ExitCode(error) = 0

\* the branch could not be deleted and the remove command still completed
C12_Witness ==
  /\ RemoveAccepted
  /\ pc = "done"
  /\ CalledWith("deleteBranch", {1})
  /\ Fired("afterRemove")
  /\ error = Ok

GuardErrors ==
  {"NotInRepoError", "DetachedHeadError", "AlreadyOnDefault", "WorktreeNotFoundError",
   "WorktreeExistsError", "OnDefaultBranchError"}

\* the guards of the running workflow, evaluated on the repository as it is
GuardsPass ==
  /\ IsInsideGitRepo(cwd)
  /\ cmd = "create" => loc.worktreePath \notin dirs
  /\ cmd = "merge" =>
       /\ CurrentBranchOf(cwd) # Null
       /\ CurrentBranchOf(cwd) # GetDefaultBranch
       /\ FindWorktreeByBranch(GetDefaultBranch) # NoWorktree
  /\ cmd = "remove" =>
       /\ loc.target \in ListWorktrees
       /\ loc.target.branch # GetDefaultBranch
       /\ opts.name # Undefined => loc.target.branch = opts.name

\* C13: in create, merge and remove every guard violation ends the command
\* with a non-zero exit code before any lifecycle event has fired and before
\* any mutating git call: a command that ended with a guard error has taken no
\* step, and when the first step is taken (always a lifecycle event) every
\* guard of the workflow holds.
C13_GuardsFirst ==
  /\ error.name \in GuardErrors =>
       /\ Done
       /\ ExitCode(error) # 0
       /\ Steps = <<>>
       /\ stdout = <<>>
       /\ runner = IdleRunner
  /\ Steps # <<>> => Steps[1].t = "event"
  /\ Len(Steps) = 1 => GuardsPass

\* create was refused because the resolved path is that of the linked worktree
C13_Witness ==
  /\ cmd = "create"
  /\ pc = "done"
  /\ error = WtError("WorktreeExistsError")
  /\ loc.worktreePath = Wt
  /\ Wt \in DOMAIN worktrees

CreateStepsCopy ==
  <<"beforeCreate", "createWorktree", "copyGitIgnoredFiles", "afterCreate", "console.log">>

CreateStepsNoCopy == <<"beforeCreate", "createWorktree", "afterCreate", "console.log">>

\* C14: a successful create run checks the path, fires beforeCreate, adds the
\* worktree, copies the ignored files of the repository root when
\* copyGitIgnoredFiles is set (and only then), fires afterCreate and writes the
\* resolved path to stdout, in that order; when afterCreate fires the worktree
\* exists and the copy is over.
C14_CreateOrder ==
  cmd = "create" =>
    /\ IsPrefix(Ops(Steps), IF settings.copyGitIgnoredFiles THEN CreateStepsCopy
                            ELSE CreateStepsNoCopy)
    /\ (Len(Steps) = 1 /\ runner.state = "loop" /\ runner.slot = 1) =>
         loc.worktreePath \notin dirs
    /\ \A i \in 1..Len(trace) : trace[i].t = "copy" => trace[i].arg = TopLevel(cwd)
    /\ Fired("afterCreate") =>
         /\ CalledWith("createWorktree", {0})
         /\ loc.worktreePath \in DOMAIN worktrees
         /\ worktrees[loc.worktreePath] = opts.name
         /\ loc.worktreePath \in dirs
         /\ opts.name \in branches
    /\ (Done /\ error = Ok) =>
         /\ Ops(Steps) = IF settings.copyGitIgnoredFiles THEN CreateStepsCopy
                         ELSE CreateStepsNoCopy
         /\ stdout = <<loc.worktreePath>>

\* a create run from a subdirectory has completed with the copy, taken from
\* the root of the worktree and not from the subdirectory
C14_Witness ==
  /\ cmd = "create"
  /\ pc = "done"
  /\ error = Ok
  /\ cwd = WtSub
  /\ \E i \in 1..Len(trace) : trace[i].t = "copy" /\ trace[i].arg = Wt
  /\ stdout = <<New>>

\* the git worktree add call of this run was rejected
CreateRejected ==
  cmd = "create" /\ \E i \in 1..Len(trace) :
     trace[i].t = "vcs" /\ trace[i].op = "createWorktree" /\ trace[i].exit # 0

\* C15: in the create workflow a non-zero exit of add-worktree is fatal: the
\* command ends with a WtError and a non-zero exit code, nothing is copied, no
\* afterCreate event fires and nothing is written to stdout.
C15_CreateFailureFatal ==
  CreateRejected =>
    /\ Done
    /\ error = WtError("WtError")
    /\ ExitCode(error) # 0
    /\ Ops(Steps) = <<"beforeCreate", "createWorktree">>
    /\ \A i \in 1..Len(trace) : trace[i].t # "copy"
    /\ ~Fired("afterCreate")
    /\ stdout = <<>>
    /\ runner = IdleRunner
    /\ loc.worktreePath \notin DOMAIN worktrees

\* git refused to add the worktree although copying was configured
C15_Witness ==
  /\ CreateRejected
  /\ pc = "done"
  /\ settings.copyGitIgnoredFiles
  /\ Fired("beforeCreate")

\* everything a workflow reads and writes: all variables but the runner's
WorkflowView ==
  <<cmd, opts, settings, cwd, originHead, worktrees, branches, dirs, pc, loc, trace,
    stdout, error, shellCwd>>

\* C16: hook and plugin failures never influence the enclosing workflow.  No
\* step taken inside a runHooks call, whatever its hooks do, changes the git
\* calls made so far, stdout, the error or the position and locals of the
\* workflow, and every runHooks call hands control back in the same runner
\* state; so two runs on the same inputs and git responses that differ only
\* in which hooks fail make the same git calls, write the same stdout and end
\* with the same exit code.
C16_HooksNeverInfluence ==
  /\ [](Idle => runner = IdleRunner)
  /\ [][~Idle => (WorkflowView' = WorkflowView /\ runner'.state # "raised")]_vars

\* a beforeCreate hook has failed and createCommand is about to go on
C16_Witness ==
  /\ CallComplete
  /\ runner.hookName = "beforeCreate"
  /\ runner.warnings # <<>>
  /\ pc = "createWorktree"
  /\ error = NoError

\* the workflow ran to its end after having started its operation
Completed == Done /\ error = Ok /\ Steps # <<>>

\* the lines of the console.log calls recorded in a trace
LinesOf(tr) ==
  LET outs == SelectSeq(tr, LAMBDA e : e.t = "out")
  IN  [i \in 1..Len(outs) |-> outs[i].arg]

\* C17 as stated: each of create, merge and remove writes exactly one line, a
\* path, to stdout when it completes.
C17_OneLineEachWorkflow ==
  Completed => Len(stdout) = 1 /\ stdout[1] \in AllDirs

\* C17 amended: create and merge write exactly one line, a path, to stdout
\* when they complete (merge also when git merge is rejected); remove writes
\* nothing to stdout; stdout holds the console.log lines only, never the git
\* diagnostics, and no step taken inside a runHooks call writes to it.
C17_SuccessChannel ==
  /\ [](/\ (cmd \in {"create", "merge"} /\ Completed) => Len(stdout) = 1
        /\ MergeRejected => Len(stdout) = 1
        /\ cmd = "remove" => stdout = <<>>
        /\ \A i \in 1..Len(stdout) : stdout[i] \in AllDirs
        /\ stdout = LinesOf(trace)
        /\ \A i \in 1..Len(trace) : trace[i].t = "diag" => trace[i].arg \notin Range(stdout))
  /\ [][~Idle => stdout' = stdout]_vars

\* a remove run has removed the worktree and its branch and returned
C17_Witness ==
  /\ RemoveAccepted
  /\ CalledWith("deleteBranch", {0})
  /\ Fired("afterRemove")
  /\ pc = "done"
  /\ error = Ok
  /\ stdout = <<>>

\* the hook value being run, or just finished, is an array
RunningList == runner.state \in {"loop", "value"} /\ runner.value.shape = "list"

\* C18 as stated: a failing function element does not halt the array; the
\* elements after it still run.
C18_FunctionFailureContinues ==
  (RunningList /\ runner.state = "loop") =>
    \A k \in 1..Len(runner.items) :
       (runner.items[k].kind = "fn" /\ ItemFailed(runner.items[k])
        /\ k < Len(runner.value.items)) => Len(runner.items) > k

\* C18 amended: within a hook array a failing element halts the remaining
\* elements whether it is a command or a function: no element runs after one
\* that failed, and the array ends with one warning for its hook.
C18_AnyFailureHalts ==
  RunningList =>
    /\ \A k \in 1..Len(runner.items) :
         ItemFailed(runner.items[k]) =>
           /\ k = Len(runner.items)
           /\ runner.state = "loop"
           /\ runner.warnings # <<>> /\ Last(runner.warnings) = Last(runner.ran)

\* the array [fn1, fn2]: fn1 returned a promise that rejected and fn2 did not run
C18_Witness ==
  /\ runner.state = "loop"
  /\ runner.value = [shape |-> "list", items |-> <<"fn", "fn">>]
  /\ runner.items = <<[pos |-> 1, kind |-> "fn", res |-> "reject"]>>
  /\ runner.warnings # <<>>

\* C19 as stated: the hooks of one lifecycle event share no mutable state:
\* the context a hook item is about to receive, and with it the working
\* directory of a command hook, is the context the workflow supplied, whatever
\* the earlier hook functions of the event did to the object they received.
C19_ContextNotShared ==
  runner.state = "value" =>
    /\ runner.ctx = runner.supplied
    /\ runner.ctx.worktreePath = Last(SelectSeq(trace, LAMBDA e : e.t = "event")).arg

\* C20 as stated: every beforeRemove and afterRemove event, fired by merge or
\* by remove, carries in its context the path of the worktree that remains
\* after the removal.
C20_RemoveEventsCarryTarget ==
  (~Idle /\ runner.hookName \in {"beforeRemove", "afterRemove"}) =>
    /\ runner.supplied.targetWorktree # Undefined
    /\ runner.supplied.targetWorktree # runner.supplied.worktreePath
    /\ runner.supplied.targetWorktree \in DOMAIN worktrees

\* C21 as stated: at the moment an afterRemove hook starts, in merge and in
\* remove, the worktree is no longer listed by git and its branch no longer
\* exists.
C21_AfterRemoveSeesRemoved ==
  (runner.state = "value" /\ runner.hookName = "afterRemove") =>
    /\ TopLevel(runner.supplied.worktreePath) \notin DOMAIN worktrees
    /\ runner.supplied.branchName \notin branches

\* C22: one runHooks call logs exactly one warning per hook value that raised,
\* never one per array element, and the label of each warning names the plugin
\* (or says Inline) and the hook name.
C22_OneWarningPerFailingHook ==
  LET w == runner.warnings
      lb == runner.labels
  IN  /\ Len(lb) = Len(w)
      /\ \A i \in 1..Len(w) :
           /\ w[i] \in Range(runner.ran)
           /\ \A j \in (i + 1)..Len(w) : w[i] < w[j] /\ lb[i] # lb[j]
           /\ lb[i].hook = runner.hookName
           /\ lb[i].who = (IF w[i] = InlineSlot THEN "Inline" ELSE "Plugin")
           /\ w[i] # InlineSlot => lb[i].name = w[i]
      /\ (runner.state = "loop" /\ runner.ran # <<>>) =>
           ((runner.items # <<>> /\ ItemFailed(Last(runner.items)))
              <=> (w # <<>> /\ Last(w) = Last(runner.ran)))
      /\ runner.state = "value" => Last(runner.ran) \notin Range(w)

\* the first plugin's hook failed and the inline array failed at its second
\* element: two warnings, one labelled with the plugin and one Inline
C22_Witness ==
  /\ CallComplete
  /\ runner.warnings = <<1, InlineSlot>>
  /\ runner.labels[1] = [who |-> "Plugin", name |-> 1, hook |-> runner.hookName]
  /\ runner.labels[2].who = "Inline"
  /\ Len(runner.items) = 2
  /\ runner.hookName = "afterCreate"

\* C23: hook execution is a strict sequence.  At most one hook body of an
\* event is in progress at any time; the runner moves to the next array
\* element, the next plugin or the inline hook only when no body is in
\* progress; and the workflow makes its next git call only after runHooks has
\* returned with every hook settled.
C23_StrictSequence ==
  /\ [](/\ runner.inFlight <= 1
        /\ runner.inFlight = 1 => runner.state = "value")
  /\ [][(runner'.slot # runner.slot \/ runner'.pos # runner.pos
          \/ runner'.state # runner.state) => runner'.inFlight = 0]_vars
  /\ [][runner'.inFlight > runner.inFlight =>
          (runner.inFlight = 0 /\ runner'.items = runner.items)]_vars
  /\ [][trace' # trace => (runner.state = "idle" /\ runner.inFlight = 0)]_vars

\* the second element of the second plugin's array is in progress after the
\* first plugin's hook has settled
C23_Witness ==
  /\ runner.inFlight = 1
  /\ runner.slot = 2
  /\ runner.pos = 2
  /\ runner.ran = <<1, 2>>
  /\ Len(runner.items) = 1

\* the user answered the confirmation question of confirmRemoval with no
RemovalDeclined ==
  \E i \in 1..Len(trace) :
    trace[i].t = "prompt" /\ trace[i].op = "confirmRemoval" /\ trace[i].exit = 1

\* a worktree was resolved, --force is absent and there is no TTY to confirm on
ConfirmationUnavailable ==
  /\ ~opts.force
  /\ ~opts.tty
  /\ loc.target # NoWorktree
  /\ loc.target.branch # loc.defaultBranch
  /\ pc \notin {"start", "guard", "confirm"}

\* inside a repository, without a branch argument, no worktree was selected:
\* none is selectable, there is no TTY, or the selection was cancelled
NothingSelected ==
  /\ opts.name = Undefined
  /\ pc # "start"
  /\ trace[1].exit = 0
  /\ loc.target = NoWorktree

C25_SiblingFromEveryDirectory ==
  (/\ call.fn = "worktreePath"
   /\ call.done
   /\ call.in.pattern = DefaultPattern
   /\ Basename(call.in.repoRoot) = <<"proj">>
   /\ call.in.name = <<"feature-x">>) =>
    call.out = Append(Dirname(call.in.repoRoot), <<"proj", "-", "feature-x">>)

\* the pattern with every occurrence of each token replaced by its value
Substitute(pattern, v) ==
  Flatten([i \in 1..Len(pattern) |->
             IF pattern[i] = "{repo}" THEN v.repo
             ELSE IF pattern[i] = "{branch}" THEN v.branch
             ELSE IF pattern[i] = "{parent}" THEN v.parent
             ELSE <<pattern[i]>>])

\* C26: path resolution is a function of the pattern, the three values and
\* the working directory: the same inputs give the same absolute path, and
\* that path is the one of the pattern with every occurrence of {repo},
\* {branch} and {parent} replaced by its value.
C26_PureAndEveryTokenReplaced ==
  (call.fn = "worktreePath" /\ call.done) =>
    /\ call.out = WorktreePath(call.in)
    /\ call.out =
         PathResolve(PathString(call.in.cwd),
                     Substitute(call.in.pattern,
                                [repo |-> Basename(call.in.repoRoot),
                                 branch |-> call.in.name,
                                 parent |-> PathString(Dirname(call.in.repoRoot))]))

\* C27: copyGitIgnoredFiles copies only regular files: an ignored entry that
\* is a symbolic link (also one to a regular file), a directory or a special
\* file is never copied into the destination.
C27_OnlyRegularFilesCopied ==
  (call.fn = "copyGitIgnoredFiles" /\ call.done) =>
    \A p \in call.out.files : call.in.tree[p].kind = "file"

\* the entries of the source that copyGitIgnoredFiles is to consider
Eligible(in) ==
  {p \in DOMAIN in.tree :
     /\ in.tree[p].status = "ignored"
     /\ in.includeNodeModules \/ \A i \in 1..(Len(p) - 1) : p[i] # "node_modules"}

\* C28: copyGitIgnoredFiles copies exactly the untracked ignored files of the
\* source, each to the same relative path with the directories above it
\* created, leaves out every path inside a node_modules directory unless
\* includeNodeModules is set, and returns the number of files copied, which
\* is 0 when the listing fails or is empty.
C28_CopiesExactlyIgnoredFiles ==
  (call.fn = "copyGitIgnoredFiles" /\ call.done) =>
    LET in == call.in
        out == call.out
    IN  /\ in.exitCode # 0 => (out.count = 0 /\ out.files = {})
        /\ out.files \subseteq Eligible(in)
        /\ in.exitCode = 0 =>
             \A p \in Eligible(in) : in.tree[p].kind = "file" => p \in out.files
        /\ \A p \in out.files : ParentDirs(p) \subseteq out.directories
        /\ out.count = Cardinality(out.files)

\* C29: every Worktree record that listWorktrees produces has branch = null
\* exactly when isDetached is true, also for an entry that has neither a
\* branch line nor a detached line, such as the one of a bare repository.
C29_NullBranchIffDetached ==
  (call.fn = "listWorktrees" /\ call.done) =>
    \A i \in 1..Len(call.out) : (call.out[i].branch = Null) <=> call.out[i].isDetached

\* C29 (amended): listWorktrees produces one record per entry, in order; an
\* entry with a branch line gives that branch and isDetached = false, an
\* entry with a detached line gives branch = null and isDetached = true, and
\* an entry with neither line gives branch = null and isDetached = false.  So
\* isDetached implies branch = null, and the converse holds for the entries
\* that have a branch or a detached line.
C29_NullBranchIffDetachedUnlessBare ==
  (call.fn = "listWorktrees" /\ call.done /\ call.in.exitCode = 0) =>
    /\ Len(call.out) = Len(call.in.listing)
    /\ \A i \in 1..Len(call.out) :
         LET e == call.in.listing[i]
             w == call.out[i]
         IN  /\ w.path = e.path
             /\ w.isDetached => w.branch = Null
             /\ e.head.k = "branch" => (w.branch = e.head.v /\ ~w.isDetached)
             /\ e.head.k = "detached" => (w.branch = Null /\ w.isDetached)
             /\ e.head.k = "bare" => (w.branch = Null /\ ~w.isDetached)

\* the listing of a bare repository with one worktree on a detached HEAD
C29_Witness ==
  /\ call.fn = "listWorktrees"
  /\ call.done
  /\ Len(call.out) = 2
  /\ call.in.listing[1].head.k = "bare"
  /\ call.in.listing[2].head.k = "detached"
  /\ call.out[1].branch = Null
  /\ ~call.out[1].isDetached
  /\ call.out[2].isDetached

\* C30: the claude plugin's beforeRemove preserves history.  After it ran
\* with a target worktree, every session file of the removed worktree's
\* project directory is in the target's project directory, under its own name
\* or, when that name was taken, under the name with the branch suffix; the
\* old project directory is gone; and every file the target's project
\* directory had is still there with its content.
C30_MigrationPreservesHistory ==
  (/\ call.fn = "beforeRemove"
   /\ call.done
   /\ call.in.projectsDir
   /\ call.in.targetWorktree # Undefined
   /\ call.in.old.exists) =>
    LET in == call.in
        out == call.out
    IN  /\ \A f \in DOMAIN in.old.files :
             \E n \in {f, Suffixed(f, in.branchName)} :
               n \in DOMAIN out.new.files /\ out.new.files[n] = <<"old", f>>
        /\ ~out.old.exists
        /\ \A g \in DOMAIN in.new.files :
             g \in DOMAIN out.new.files /\ out.new.files[g] = <<"new", g>>

\* C31: a single command-string hook is run in the directory that is the
\* context's worktreePath; what it wrote to stdout and then what it wrote to
\* stderr is logged, whether it succeeded or failed; and it counts as failed
\* exactly when its exit code is not 0.
C31_CommandOutputAlwaysLogged ==
  (call.fn = "executeHookItem" /\ call.done /\ call.in.cwdExists) =>
    /\ call.out.cwd = call.in.worktreePath
    /\ call.out.log =
         <<"Running">> \o Trim(call.in.child.stdout) \o Trim(call.in.child.stderr)
    /\ call.out.raised <=> call.in.child.status # 0

\* the merge command called removeWorktree and git refused
MergeRemovalFailed == cmd = "merge" /\ CalledWith("removeWorktree", {128})

\* the calls of one git operation, in the order they were made
CallsOf(op) == SelectSeq(trace, LAMBDA e : e.t = "vcs" /\ e.op = op)

\* delete-branch follows remove-worktree whatever remove-worktree's exit code
\* was, and is called at most once
DeleteFollowsRemove ==
  cmd = "merge" =>
    /\ Len(CallsOf("removeWorktree")) <= 1
    /\ Len(CallsOf("deleteBranch")) <= 1
    /\ Called("deleteBranch") => Called("removeWorktree")
    /\ (Called("removeWorktree") /\ pc # "deleteBranch") => Called("deleteBranch")
    /\ \A i, j \in 1..Len(trace) :
         (/\ trace[i].t = "vcs" /\ trace[i].op = "removeWorktree"
          /\ trace[j].t = "vcs" /\ trace[j].op = "deleteBranch") => i < j

\* C32 as stated: in `wt merge` without --keep delete-branch is called once
\* after remove-worktree whatever its exit code was, and after a removal that
\* failed the deletion can succeed, which leaves the branch deleted and its
\* worktree still listed.
C32_BranchDeletedWorktreeListed ==
  /\ DeleteFollowsRemove
  /\ (MergeRemovalFailed /\ pc = "deleteBranch") => 0 \in DeleteBranchExits(loc.currentBranch)

\* C32 (amended): delete-branch is called once after remove-worktree whatever
\* its exit code was, but after a removal that failed git refuses the
\* deletion, the branch being checked out in the worktree that is still
\* listed: no state has the branch deleted and its worktree still listed.
C32_DeleteAttemptedNeverOrphans ==
  /\ DeleteFollowsRemove
  /\ (MergeRemovalFailed /\ pc = "deleteBranch") =>
       0 \notin DeleteBranchExits(loc.currentBranch)
  /\ (cmd = "merge" /\ pc # "start" /\ loc.currentBranch # Null) =>
       ~(/\ loc.currentBranch \notin branches
         /\ \E p \in DOMAIN worktrees : worktrees[p] = loc.currentBranch)
  /\ MergeRemovalFailed => ~CalledWith("deleteBranch", {0})

\* a merge that ended after the removal was refused and the deletion tried
C32_Witness ==
  /\ MergeRemovalFailed
  /\ Called("deleteBranch")
  /\ pc = "exited"
  /\ error = Ok
  /\ Wt \in DOMAIN worktrees

\* the body of a hook function did op
Acted(op) == \E i \in 1..Len(trace) : trace[i].t = "effect" /\ trace[i].op = op

\* C33: in `wt create` the choice between a new branch and an existing one is
\* made from the branch's existence as it is after the beforeCreate hooks
\* have run: add-worktree is called with createBranch = true exactly when the
\* branch does not exist at the moment of the call; it is called at most once,
\* and once in every run that gets past the beforeCreate hooks.
C33_BranchDecidedAfterHooks ==
  /\ [](cmd = "create" =>
          /\ Len(CallsOf("createWorktree")) <= 1
          /\ (pc = "createOutput" \/ (Done /\ error = Ok)) =>
               Len(CallsOf("createWorktree")) = 1
          /\ Called("createWorktree") => (Fired("beforeCreate") /\ pc # "createWorktree"))
  /\ [][(cmd = "create" /\ pc = "createWorktree" /\ pc' # "createWorktree") =>
          /\ Idle
          /\ loc'.needsNewBranch <=> (opts.name \notin branches)
          /\ ~Called("createWorktree")
          /\ Called("createWorktree")']_vars

\* a beforeCreate hook function created the branch zzz, and the worktree was
\* then added on the branch as an existing one
C33_Witness ==
  /\ cmd = "create"
  /\ opts.name = "zzz"
  /\ Acted("branch")
  /\ CalledWith("createWorktree", {0})
  /\ ~loc.needsNewBranch

\* C37: when `wt create` is about to call add-worktree (the beforeCreate
\* hooks have returned), the resolved destination path does not exist on disk.
C37_PathStillFreeAtAdd ==
  (cmd = "create" /\ pc = "createWorktree" /\ Idle) => loc.worktreePath \notin dirs

\* C36: whenever a command-string hook item is about to run, for any event,
\* the directory it is run in (the worktreePath of the context the workflow
\* supplied) exists, so a command that would exit 0 can exit 0.
C36_HookDirectoryExists ==
  (/\ runner.state = "value"
   /\ runner.value.items[runner.pos] = "cmd"
   /\ runner.ctx.worktreePath = runner.supplied.worktreePath) =>
    /\ runner.ctx.worktreePath \in dirs
    /\ "exit0" \in ItemResults("cmd", runner.ctx)

\* the entries of the record that are not prompts, from the first beforeRemove on
AfterConfirmation ==
  LET first == CHOOSE i \in 1..Len(trace) :
                 /\ trace[i].t = "event" /\ trace[i].op = "beforeRemove"
                 /\ \A j \in 1..(i - 1) : ~(trace[j].t = "event" /\ trace[j].op = "beforeRemove")
  IN  SubSeq(trace, first, Len(trace))

\* what a removal of this target does after the confirmation step, as far as
\* it got: written without the force flag
RemovalOf(target, n) ==
  LET whole == IF target.branch # Null
               THEN <<[t |-> "event", op |-> "beforeRemove", arg |-> target.path],
                      [t |-> "vcs", op |-> "removeWorktree", arg |-> target.path],
                      [t |-> "vcs", op |-> "deleteBranch", arg |-> target.branch],
                      [t |-> "event", op |-> "afterRemove", arg |-> target.path]>>
               ELSE <<[t |-> "event", op |-> "beforeRemove", arg |-> target.path],
                      [t |-> "vcs", op |-> "removeWorktree", arg |-> target.path],
                      [t |-> "event", op |-> "afterRemove", arg |-> target.path]>>
  IN  SubSeq(whole, 1, n)

WithoutExit(s) == [i \in 1..Len(s) |-> [t |-> s[i].t, op |-> s[i].op, arg |-> s[i].arg]]

\* C34: the force flag of `wt remove` affects only the confirmation step. A
\* forced run asks nothing and never stops at the confirmation; an unforced run
\* goes on only after one prompt answered yes; from the beforeRemove event on,
\* the hooks fired, the git calls, their arguments and the outcome are given by
\* the target and git's answers alone, the same with and without force.
C34_ForceOnlySkipsConfirmation ==
  cmd = "remove" =>
    /\ opts.force => ~Prompted("confirmRemoval")
    /\ (opts.force /\ Done /\ error = Ok /\ loc.target.path # Null) =>
         Fired("beforeRemove")
    /\ (~opts.force /\ Fired("beforeRemove")) =>
         /\ Len(SelectSeq(trace, LAMBDA e : e.t = "prompt" /\ e.op = "confirmRemoval")) = 1
         /\ \E i \in 1..Len(trace) :
              /\ trace[i] = Answered("confirmRemoval", loc.target.path, "y")
              /\ trace[i + 1].t = "event" /\ trace[i + 1].op = "beforeRemove"
    /\ Fired("beforeRemove") =>
         /\ Len(AfterConfirmation) <= 4
         /\ WithoutExit(AfterConfirmation) = RemovalOf(loc.target, Len(AfterConfirmation))
         /\ Done =>
              /\ error = WtError("WtError") <=> RemoveRejected
              /\ error = Ok <=> Fired("afterRemove")
              /\ error \in {Ok, WtError("WtError")}

\* a forced removal without a terminal ran to its end: both events fired, both
\* git calls were made, and nothing was asked
C34_Witness ==
  /\ cmd = "remove"
  /\ opts.force /\ ~opts.tty
  /\ pc = "done" /\ error = Ok
  /\ loc.target.path = Wt
  /\ CalledWith("removeWorktree", {0})
  /\ Called("deleteBranch")
  /\ Fired("afterRemove")
  /\ ~Prompted("confirmRemoval")

\* C35: in `wt merge` without keep, the path given to the remove-worktree
\* call, and to the hooks as worktreePath, is the root of the worktree whose
\* branch was merged, from whatever directory inside it the command was run.
C35_RemovesWorktreeRoot ==
  (cmd = "merge" /\ ~opts.keep) =>
    \A i \in 1..Len(trace) :
      /\ (trace[i].t = "vcs" /\ trace[i].op = "removeWorktree") =>
           trace[i].arg = TopLevel(cwd)
      /\ trace[i].t = "event" => trace[i].arg = TopLevel(cwd)

\* the lifecycle events and mutating git calls of the run so far
Milestones ==
  SelectSeq(trace, LAMBDA e : e.t = "event" \/ (e.t = "vcs" /\ e.op \in MutatingOps))

\* the state of the merge workflow's diagram the run is in, read off the last
\* thing mergeCommand did
MergeState ==
  IF Milestones = <<>> THEN "Start"
  ELSE LET last == Last(Milestones)
           before == IF Len(Milestones) > 1 THEN Milestones[Len(Milestones) - 1].op ELSE "none"
       IN  CASE last.op = "beforeMerge" -> "PreMergeHookRun"
             [] last.op = "mergeBranch" ->
                  IF last.exit # 0 THEN "MergeFailed" ELSE "MergeSucceeded"
             [] last.op = "afterMerge" ->
                  IF before = "mergeBranch" THEN "KeepBranch" ELSE "PostMergeHookRun"
             [] last.op = "beforeRemove" -> "PreRemoveHookRun"
             [] last.op = "removeWorktree" -> "WorktreeRemoved"
             [] last.op = "deleteBranch" -> "BranchDeleted"
             [] last.op = "afterRemove" -> "PostRemoveHookRun"
             [] OTHER -> "Unknown"

MergeTerminals == {"MergeFailed", "KeepBranch", "PostMergeHookRun"}

\* the arrows of the diagram between the states a run can be seen in
\* (GuardChecked, MergeAttempted, MergeSucceeded and BranchDeleted are passed
\* through within one step of mergeCommand)
MergeArrows ==
  {<<"Start", "PreMergeHookRun">>,
   <<"PreMergeHookRun", "MergeFailed">>,
   <<"PreMergeHookRun", "KeepBranch">>,
   <<"PreMergeHookRun", "PreRemoveHookRun">>,
   <<"PreRemoveHookRun", "WorktreeRemoved">>,
   <<"WorktreeRemoved", "PostRemoveHookRun">>,
   <<"PostRemoveHookRun", "PostMergeHookRun">>}

MergeDiagramOrder ==
  /\ [](cmd = "merge" =>
          \A i, j \in 1..Len(Milestones) : i # j => Milestones[i].op # Milestones[j].op)
  /\ [][cmd = "merge" =>
          (MergeState' = MergeState \/ <<MergeState, MergeState'>> \in MergeArrows)]_vars

\* the run is at its start and none of mergeCommand's guards will stop it
AtStartPassingGuards == cmd = "merge" /\ pc = "start" /\ GuardsPass

\* the guards passed and loadConfig returned a configuration
PassedGuards == cmd = "merge" /\ Fired("beforeMerge")

\* the command has ended and the shell wrapper has acted on its output
Ended == pc = "exited"

\* C38 (as stated): every merge run that passes the guards eventually reaches
\* one of the terminal states MergeFailed, KeepBranch or PostMergeHookRun, and
\* visits the states in the diagram's order without revisiting one.
C38_ReachesTerminalState ==
  /\ AtStartPassingGuards ~> (Ended /\ MergeState \in MergeTerminals)
  /\ MergeDiagramOrder

\* C38 (amended): every merge run that passes the guards ends. When the
\* configuration loads, it ends in exactly one of the three terminal states
\* (MergeFailed with the merge-conflict error, the other two successfully);
\* when loadConfig throws, it ends with that error before any hook or git
\* mutation. The states are visited in the diagram's order, none twice.
C38_EndsInTerminalStateOrConfigError ==
  /\ AtStartPassingGuards ~> Ended
  /\ []((cmd = "merge" /\ Done) =>
          /\ PassedGuards =>
               /\ MergeState \in MergeTerminals
               /\ MergeState = "MergeFailed" <=> error.name = "MergeConflictError"
               /\ MergeState \in {"KeepBranch", "PostMergeHookRun"} <=> error = Ok
               /\ MergeState = "KeepBranch" <=> (opts.keep /\ error = Ok)
          /\ (~PassedGuards /\ GuardsPass) =>
               /\ error = WtError("Error")
               /\ MergeState = "Start"
               /\ stdout = <<>>)
  /\ []((cmd = "merge" /\ MergeState \in MergeTerminals /\ Idle) => pc \in {"output", "done", "exited"})
  /\ MergeDiagramOrder

\* a run went through the whole diagram and ended in PostMergeHookRun
C38_Witness ==
  /\ PassedGuards
  /\ Ended
  /\ error = Ok
  /\ MergeState = "PostMergeHookRun"
  /\ Ops(Milestones) = <<"beforeMerge", "mergeBranch", "beforeRemove", "removeWorktree",
                         "deleteBranch", "afterRemove", "afterMerge">>

\* the start directory and its ancestors up to the root
AncestorsOf(dir) == {SubSeq(dir, 1, n) : n \in 0..Len(dir)}

\* the config files loadConfig can see from startDir
VisibleConfigs(in) == {f \in in.files : f.dir \in AncestorsOf(in.startDir)}

\* C39: loadConfig loads a config file from the closest directory, among the
\* start directory and its ancestors, that holds a file with one of the three
\* supported names; when there is none it returns the defaults.
C39_NearestConfigLoaded ==
  (call.fn = "loadConfig" /\ call.done) =>
    IF VisibleConfigs(call.in) = {}
    THEN call.out = DefaultConfig
    ELSE /\ Len(call.out.configPath) = 1
         /\ call.out.configPath[1] \in VisibleConfigs(call.in)
         /\ \A f \in VisibleConfigs(call.in) :
              Len(f.dir) <= Len(call.out.configPath[1].dir)

====
